---- MODULE Spec2Model ----
(***************************************************************************)
(* The grep command of kf (src/src/grep/): the orchestrator grep with its  *)
(* three modes (files, piped stdin, interactive stdin), the line scanner   *)
(* MatchesFinder and the renderer FileMatchesReporter, down to the         *)
(* characters written to standard output (specification Spec); its source  *)
(* resolver FilesFinder (specification SpecFinder); and of the view        *)
(* command (src/src/view/) the range mini-language RangeSpecParser         *)
(* (specification SpecRange) and view_files (specification SpecView).      *)
(*                                                                         *)
(* Text is a sequence of one-character strings.  The output sink is the    *)
(* sequence of characters the writer has accepted.  Every write!/writeln!  *)
(* of the source is one "piece"; a rendering operator returns the pieces   *)
(* it writes, in order, and the action that performs them may fail at any  *)
(* piece (an io::Error from the writer, propagated by `?`).                *)
(***************************************************************************)
EXTENDS Integers, Sequences, FiniteSets, TLC

VARIABLES
    pattern,        \* args.pattern: the compiled regex (a literal)
    count,          \* args.count
    invert_match,   \* args.invert_match
    color,          \* args.color
    files_given,    \* ~args.files.is_empty()
    is_terminal,    \* stdin().is_terminal()
    files,          \* args.files: the paths given to grep
    recursive,      \* args.recursive
    resolved,       \* what files_finder.find_files() returns
    stdin,          \* the items the stdin reader yields, in order
    pc,             \* where the invocation stands
    i,              \* position of the running loop (entry / line to read next)
    has_matches,    \* the match-found flag
    result,         \* the last scan result (local `result`)
    sink,           \* characters accepted by the stdout writer
    diag,           \* diagnostics accepted by stderr
    flushed,        \* writer.flush() has returned Ok
    outcome,        \* what grep returned: Ok, NoMatches, IoError; or Panic
    cause,          \* the failing operation behind an IoError / Panic
    exit_code,      \* the status main exits with (-1: still running)
    file_paths,     \* view: args.file_paths
    quite,          \* view: args.quite
    format,         \* view: args.format
    input,          \* view: the range string given to -n / --lines
    lines           \* view: args.lines, what the range string parsed to

\* What a run of grep never assigns: its arguments, its environment, the
\* outcome of the resolver, and the arguments of the view command.
inputs == <<pattern, count, invert_match, color, files_given, is_terminal, resolved, stdin,
            files, recursive, file_paths, quite, format, input, lines>>
vars == <<pattern, count, invert_match, color, files_given, is_terminal, resolved, stdin,
          pc, i, has_matches, result, sink, diag, flushed, outcome, cause, exit_code,
          files, recursive, file_paths, quite, format, input, lines>>

----------------------------------------------------------------------------
(* Bounds of the model *)

MaxEntries == 3
MaxLines == 3
MaxTokens == 3

BoundedSeq(S, n) == UNION {[1..k -> S] : k \in 0..n}

----------------------------------------------------------------------------
(* Text, the inputs and the file system *)

NL == "\n"
WhiteSpace == {" ", "\t", "\n", "\r"}

Foo == <<"f", "o", "o">>
Bar == <<"b", "a", "r">>
PadBar == <<" ", "b", "a", "r", " ">>
FooBar == <<"f", "o", "o", "b", "a", "r">>

\* An Err(e) item of the reader's lines() / read_line().
IoErr == <<"#EIO">>

\* The regex: a literal searched anywhere in the line.  The empty regex
\* matches every line, <<"q">> matches no line of the inputs.
Patterns == {Foo, <<>>, <<"q">>}

StdinItems == {Foo, PadBar, <<>>, IoErr}

FilePaths == {<<"a">>, <<"c">>, <<"z">>, <<"e">>, <<"d">>}

\* The files behind the resolved paths: File::open's outcome and what the
\* BufReader then yields.
FileSystem(path) ==
    CASE path = <<"a">> -> [open_ok |-> TRUE, items |-> <<Foo, Bar, FooBar>>]
      [] path = <<"c">> -> [open_ok |-> TRUE, items |-> <<PadBar>>]
      [] path = <<"z">> -> [open_ok |-> TRUE, items |-> <<>>]
      [] path = <<"e">> -> [open_ok |-> TRUE, items |-> <<Foo, IoErr>>]
      [] OTHER -> [open_ok |-> FALSE, items |-> <<>>]

\* One element of Vec<io::Result<PathBuf>>.
ResErr == [ok |-> FALSE, path |-> <<"x">>, error |-> "NotFound"]
ResolvedEntries == {[ok |-> TRUE, path |-> p] : p \in FilePaths} \cup {ResErr}

StdinPath == <<"s", "t", "d", "i", "n">>

NoResult == [ok |-> FALSE, file_path |-> <<>>, matches |-> <<>>]

\* args.lines before the range string is parsed.
NoLines == [ok |-> FALSE, error |-> "none"]

----------------------------------------------------------------------------
(* Strings *)

RECURSIVE Flatten(_)
Flatten(pieces) ==
    IF pieces = <<>> THEN <<>> ELSE Head(pieces) \o Flatten(Tail(pieces))

RECURSIVE trim_start(_)
trim_start(s) ==
    IF s # <<>> /\ Head(s) \in WhiteSpace THEN trim_start(Tail(s)) ELSE s

RECURSIVE trim_end(_)
trim_end(s) ==
    IF s # <<>> /\ s[Len(s)] \in WhiteSpace
    THEN trim_end(SubSeq(s, 1, Len(s) - 1))
    ELSE s

trim(s) == trim_end(trim_start(s))

Digits == <<"0", "1", "2", "3", "4", "5", "6", "7", "8", "9">>

\* Display of a usize: its decimal digits.
RECURSIVE to_string(_)
to_string(n) ==
    IF n < 10 THEN <<Digits[n + 1]>>
    ELSE to_string(n \div 10) \o <<Digits[(n % 10) + 1]>>

\* The colored crate: an escape sequence before the text, a reset after it.
StyleTokens == {"ESC[31m", "ESC[32m", "ESC[1;35m", "ESC[0m"}
red(s) == <<"ESC[31m">> \o s \o <<"ESC[0m">>
green(s) == <<"ESC[32m">> \o s \o <<"ESC[0m">>
magenta_bold(s) == <<"ESC[1;35m">> \o s \o <<"ESC[0m">>

IsPrefix(p, s) == Len(p) <= Len(s) /\ SubSeq(s, 1, Len(p)) = p

\* Regex::is_match for the literal pat.
pattern_is_match(pat, line) ==
    \E k \in 0..Len(line) : IsPrefix(pat, SubSeq(line, k + 1, Len(line)))

\* Regex::replace_all(line, red("$0")): every leftmost non-overlapping match
\* is wrapped; the empty regex has an empty match at every position.
RECURSIVE replace_all(_, _)
replace_all(pat, line) ==
    IF pat = <<>>
    THEN IF line = <<>> THEN red(<<>>)
         ELSE red(<<>>) \o <<Head(line)>> \o replace_all(pat, Tail(line))
    ELSE IF line = <<>> THEN <<>>
    ELSE IF IsPrefix(pat, line)
         THEN red(pat) \o replace_all(pat, SubSeq(line, Len(pat) + 1, Len(line)))
         ELSE <<Head(line)>> \o replace_all(pat, Tail(line))

----------------------------------------------------------------------------
(* MatchesFinder (src/src/grep/matcher.rs) *)

matches_finder == [pattern |-> pattern, invert_match |-> invert_match]

is_match_no_invert(self, line) == pattern_is_match(self.pattern, line)

is_match(self, line) ==
    pattern_is_match(self.pattern, line) # self.invert_match

\* The line counter advances on matching lines only.
RECURSIVE collect_from_counting_matches(_, _, _, _)
collect_from_counting_matches(self, items, index, acc) ==
    IF index >= Len(items) THEN [ok |-> TRUE, matches |-> acc]
    ELSE LET line == items[index + 1] IN
         IF line = IoErr THEN [ok |-> FALSE, matches |-> <<>>]
         ELSE IF is_match(self, line)
              THEN collect_from_counting_matches(self, items, index + 1,
                       Append(acc, [line |-> line, line_number |-> Len(acc) + 1]))
              ELSE collect_from_counting_matches(self, items, index + 1, acc)

\* reader.lines().enumerate().filter_map(..).collect(): index is 0-based,
\* the first Err item ends the collection with that error.
RECURSIVE collect_from(_, _, _, _)
collect_from(self, items, index, acc) ==
    IF index >= Len(items) THEN [ok |-> TRUE, matches |-> acc]
    ELSE LET line == items[index + 1] IN
         IF line = IoErr THEN [ok |-> FALSE, matches |-> <<>>]
         ELSE IF is_match(self, line)
              THEN collect_from(self, items, index + 1,
                       Append(acc, [line |-> line, line_number |-> index + 1]))
              ELSE collect_from(self, items, index + 1, acc)

\* The scan ends at the first line that fails to read and returns the
\* matches of the lines before it.
find_matches_from_reader_partial(self, items) ==
    LET errs == {k \in 1..Len(items) : items[k] = IoErr}
        upto == IF errs = {} THEN Len(items)
                ELSE (CHOOSE k \in errs : \A j \in errs : k <= j) - 1
    IN collect_from(self, SubSeq(items, 1, upto), 0, <<>>)

find_matches_from_reader(self, items) == collect_from(self, items, 0, <<>>)

find_matches_from_file(self, file) ==
    LET f == FileSystem(file) IN
    IF ~f.open_ok THEN [ok |-> FALSE, file_path |-> file, matches |-> <<>>]
    ELSE LET m == find_matches_from_reader(self, f.items) IN
         [ok |-> m.ok, file_path |-> file, matches |-> m.matches]

find_matches_from_stdin(self, items) ==
    LET m == find_matches_from_reader(self, items) IN
    [ok |-> m.ok, file_path |-> StdinPath, matches |-> m.matches]

----------------------------------------------------------------------------
(* FilesFinder (src/src/grep/finder.rs) and the directory tree it reads    *)

\* DirEntry::path: the directory's path joined with the entry's name.
Join(dir_path, name) == dir_path \o <<"/">> \o name

RegularFile == [kind |-> "file", readable |-> TRUE, names |-> <<>>]
\* Exists, but is neither a regular file nor a directory (a fifo, a socket).
SpecialFile == [kind |-> "other", readable |-> TRUE, names |-> <<>>]
Missing == [kind |-> "missing", readable |-> FALSE, names |-> <<>>]
\* A directory and the names read_dir yields for it, in read order.
Directory(names) == [kind |-> "dir", readable |-> TRUE, names |-> names]
\* A directory read_dir fails on.
LockedDirectory == [kind |-> "dir", readable |-> FALSE, names |-> <<>>]

\* What lies behind a path:
\*   a c z e d      regular files          x   nothing
\*   p              a fifo
\*   t/{1, b/{2, k/{}, p (fifo), 4}, 3}
\*   u/{1, n/ (unreadable), 2}
Node(path) ==
    CASE path \in FilePaths -> RegularFile
      [] path = <<"p">> -> SpecialFile
      [] path = <<"t">> -> Directory(<< <<"1">>, <<"b">>, <<"3">> >>)
      [] path = <<"t", "/", "1">> -> RegularFile
      [] path = <<"t", "/", "b">> ->
             Directory(<< <<"2">>, <<"k">>, <<"p">>, <<"4">> >>)
      [] path = <<"t", "/", "b", "/", "2">> -> RegularFile
      [] path = <<"t", "/", "b", "/", "k">> -> Directory(<<>>)
      [] path = <<"t", "/", "b", "/", "p">> -> SpecialFile
      [] path = <<"t", "/", "b", "/", "4">> -> RegularFile
      [] path = <<"t", "/", "3">> -> RegularFile
      [] path = <<"u">> -> Directory(<< <<"1">>, <<"n">>, <<"2">> >>)
      [] path = <<"u", "/", "1">> -> RegularFile
      [] path = <<"u", "/", "n">> -> LockedDirectory
      [] path = <<"u", "/", "2">> -> RegularFile
      [] OTHER -> Missing

\* The paths given on the command line.
InputPaths ==
    {<<"a">>, <<"c">>, <<"x">>, <<"p">>, <<"t">>, <<"t", "/", "b">>, <<"u">>}

\* fs::metadata(path)
metadata(path) ==
    [ok |-> Node(path).kind # "missing",
     is_file |-> Node(path).kind = "file",
     is_dir |-> Node(path).kind = "dir"]

\* Path::is_file, Path::is_dir: false when the metadata cannot be read.
is_file(path) == metadata(path).ok /\ metadata(path).is_file
is_dir(path) == metadata(path).ok /\ metadata(path).is_dir

\* fs::read_dir(path)
read_dir(path) ==
    [ok |-> is_dir(path) /\ Node(path).readable, names |-> Node(path).names]

\* One element of Vec<io::Result<PathBuf>>: Ok(path), Err(e) for a path.
OkEntry(path) == [ok |-> TRUE, path |-> path]
ErrEntry(path, e) == [ok |-> FALSE, path |-> path, error |-> e]

IsADirectory(path) ==
    path \o <<" is a directory, use -r to search recursively">>

files_finder == [files |-> files, recursive |-> recursive]

\* The files of a nested directory are put before those of its parent.
RECURSIVE find_files_in_dir_from_nested_first(_, _, _, _)
find_files_in_dir_from_nested_first(self, dir_path, k, found) ==
    LET names == read_dir(dir_path).names IN
    IF ~read_dir(dir_path).ok
    THEN [ok |-> FALSE, files |-> <<>>, error |-> "PermissionDenied"]
    ELSE IF k > Len(names)
    THEN [ok |-> TRUE, files |-> found, error |-> "none"]
    ELSE LET path == Join(dir_path, names[k]) IN
         IF is_file(path)
         THEN find_files_in_dir_from_nested_first(self, dir_path, k + 1,
                                                  Append(found, path))
         ELSE IF is_dir(path) /\ self.recursive
         THEN LET nested_files ==
                      find_files_in_dir_from_nested_first(self, path, 1, <<>>) IN
              IF ~nested_files.ok THEN nested_files
              ELSE find_files_in_dir_from_nested_first(self, dir_path, k + 1,
                                                       nested_files.files \o found)
         ELSE find_files_in_dir_from_nested_first(self, dir_path, k + 1, found)

\* find_files_in_dir: the loop over the entries of read_dir from the k-th
\* on, `found` holding the files the entries before it gave; `?` on an
\* unreadable directory returns its error.
RECURSIVE find_files_in_dir_from(_, _, _, _)
find_files_in_dir_from(self, dir_path, k, found) ==
    LET names == read_dir(dir_path).names IN
    IF ~read_dir(dir_path).ok
    THEN [ok |-> FALSE, files |-> <<>>, error |-> "PermissionDenied"]
    ELSE IF k > Len(names)
    THEN [ok |-> TRUE, files |-> found, error |-> "none"]
    ELSE LET path == Join(dir_path, names[k]) IN
         IF is_file(path)
         THEN find_files_in_dir_from(self, dir_path, k + 1, Append(found, path))
         ELSE IF is_dir(path) /\ self.recursive
         THEN LET nested_files == find_files_in_dir_from(self, path, 1, <<>>) IN
              IF ~nested_files.ok THEN nested_files
              ELSE find_files_in_dir_from(self, dir_path, k + 1,
                                          found \o nested_files.files)
         ELSE find_files_in_dir_from(self, dir_path, k + 1, found)

find_files_in_dir(self, dir_path) == find_files_in_dir_from(self, dir_path, 1, <<>>)

find_files_at_path(self, path) ==
    LET f == metadata(path) IN
    IF ~f.ok THEN << ErrEntry(path, "NotFound") >>
    ELSE IF f.is_file THEN << OkEntry(path) >>
    ELSE IF f.is_dir
    THEN IF self.recursive
         THEN LET sub_files == find_files_in_dir(self, path) IN
              IF ~sub_files.ok THEN << ErrEntry(path, sub_files.error) >>
              ELSE [n \in 1..Len(sub_files.files) |-> OkEntry(sub_files.files[n])]
         ELSE << ErrEntry(path, IsADirectory(path)) >>
    ELSE <<>>

\* The paths whose resolution, without -r, gives these entries.
ArgsOf(entries) ==
    IF entries = <<>> THEN << <<"p">> >>
    ELSE [n \in 1..Len(entries) |-> entries[n].path]

----------------------------------------------------------------------------
(* FileMatchesReporter (src/src/grep/reporter.rs): each operator returns   *)
(* the pieces it writes.                                                   *)

reporter == [pattern |-> pattern, count |-> count, color |-> color]

output_newline(self) == << <<NL>> >>

output_file_separator_always(self) == output_newline(self)

output_file_separator(self) ==
    IF ~self.count THEN output_newline(self) ELSE <<>>

output_file_path(self, path) ==
    << IF self.color THEN magenta_bold(path) ELSE path >>

output_line_number(self, line_number) ==
    << (IF self.color THEN green(to_string(line_number))
        ELSE to_string(line_number)) \o <<":">> >>

highlight_pattern(self, line) ==
    IF self.color /\ pattern_is_match(self.pattern, line)
    THEN replace_all(self.pattern, line)
    ELSE line

output_line_text_untrimmed(self, line) ==
    << IF self.color THEN highlight_pattern(self, line) ELSE line >>
    \o output_newline(self)

output_line_text(self, line) ==
    << IF self.color THEN highlight_pattern(self, trim(line)) ELSE trim(line) >>
    \o output_newline(self)

RECURSIVE output_matched_lines_from(_, _, _)
output_matched_lines_from(self, matches, k) ==
    IF k > Len(matches) THEN <<>>
    ELSE output_line_number(self, matches[k].line_number)
         \o output_line_text(self, matches[k].line)
         \o output_matched_lines_from(self, matches, k + 1)

output_matched_lines(self, res) == output_matched_lines_from(self, res.matches, 1)

output_matches_count_last(self, res) ==
    << to_string(res.matches[Len(res.matches)].line_number) >> \o output_newline(self)

output_matches_count(self, res) ==
    << to_string(Len(res.matches)) >> \o output_newline(self)

output_file_match_count(self, res) ==
    output_file_path(self, res.file_path) \o << <<":">> >> \o output_matches_count(self, res)

output_file_matched_lines(self, res) ==
    output_file_path(self, res.file_path) \o output_newline(self)
    \o output_matched_lines(self, res)

output_stdin_matches_labelled(self, res) ==
    IF self.count THEN output_matches_count(self, res)
    ELSE output_file_matched_lines(self, res)

output_stdin_matches(self, res) ==
    IF self.count THEN output_matches_count(self, res)
    ELSE output_matched_lines(self, res)

output_file_matches(self, res) ==
    IF self.count THEN output_file_match_count(self, res)
    ELSE output_file_matched_lines(self, res)

----------------------------------------------------------------------------
(* The orchestrator (src/src/grep/mod.rs) and main (src/src/main.rs) *)

\* The view command is not the one running.
ViewAtRest ==
    /\ file_paths = <<>>
    /\ quite = FALSE
    /\ format = "Text"
    /\ input = <<>>
    /\ lines = NoLines

Init ==
    /\ pattern \in Patterns
    /\ count \in BOOLEAN
    /\ invert_match \in BOOLEAN
    /\ color \in BOOLEAN
    /\ \/ /\ files_given = TRUE
          /\ resolved \in BoundedSeq(ResolvedEntries, MaxEntries)
          /\ files = ArgsOf(resolved)
          /\ stdin = <<>>
          /\ is_terminal = FALSE
       \/ /\ files_given = FALSE
          /\ resolved = <<>>
          /\ files = <<>>
          /\ stdin \in BoundedSeq(StdinItems, MaxLines)
          /\ is_terminal \in BOOLEAN
    /\ recursive = FALSE
    /\ ViewAtRest
    /\ pc = "grep"
    /\ i = 1
    /\ has_matches = FALSE
    /\ result = NoResult
    /\ sink = <<>>
    /\ diag = <<>>
    /\ flushed = FALSE
    /\ outcome = "running"
    /\ cause = "none"
    /\ exit_code = -1

\* `?` on an io::Error inside grep_stdin / grep_files: grep returns
\* Err(GrepError::IoError) without reaching writer.flush().
Fail(why) ==
    /\ pc' = "return"
    /\ outcome' = "IoError"
    /\ cause' = why

\* The writer accepts the first k of the pieces; the write after them fails
\* when k is less than their number.
Written(pieces, k) == sink \o Flatten(SubSeq(pieces, 1, k))

\* grep: the choice of the mode.
grep ==
    /\ pc = "grep"
    /\ pc' = IF files_given THEN "grep_files"
             ELSE IF is_terminal THEN "grep_interactive_stdin"
             ELSE "grep_piped_stdin"
    /\ UNCHANGED <<inputs, i, has_matches, result, sink, diag, flushed, outcome,
                   cause, exit_code>>

\* The diagnostic of a resolution error goes to the output sink.
grep_files_access_error_to_sink ==
    /\ pc = "grep_files" /\ i <= Len(resolved)
    /\ ~resolved[i].ok
    /\ sink' = sink \o <<"E", "r", "r", "o", "r", NL>>
    /\ i' = i + 1
    /\ UNCHANGED <<inputs, pc, outcome, cause, exit_code, diag, has_matches, result,
                   flushed>>

\* grep_files, arm Err(e) of the resolved entry: eprintln!, which panics when
\* stderr refuses the write.
grep_files_access_error ==
    /\ pc = "grep_files" /\ i <= Len(resolved)
    /\ ~resolved[i].ok
    /\ \/ /\ diag' = Append(diag, <<"Error accessing file">>)
          /\ i' = i + 1
          /\ UNCHANGED <<pc, outcome, cause, exit_code>>
       \/ /\ pc' = "exit"
          /\ outcome' = "Panic"
          /\ cause' = "stderr"
          /\ exit_code' = 101
          /\ UNCHANGED <<diag, i>>
    /\ UNCHANGED <<inputs, has_matches, result, sink, flushed>>

\* grep_files, arm Ok(file_path) with a scan error: writeln!(io::stderr(), ..)?
grep_files_read_error ==
    /\ pc = "grep_files" /\ i <= Len(resolved)
    /\ resolved[i].ok
    /\ LET r == find_matches_from_file(matches_finder, resolved[i].path) IN
       /\ ~r.ok
       /\ result' = r
       /\ \/ /\ diag' = Append(diag, <<"Error reading file">> \o r.file_path)
             /\ i' = i + 1
             /\ UNCHANGED <<pc, outcome, cause>>
          \/ /\ Fail("stderr")
             /\ UNCHANGED <<diag, i>>
    /\ UNCHANGED <<inputs, has_matches, sink, flushed, exit_code>>

\* grep_files, arm Ok(_) => continue.
grep_files_no_match ==
    /\ pc = "grep_files" /\ i <= Len(resolved)
    /\ resolved[i].ok
    /\ LET r == find_matches_from_file(matches_finder, resolved[i].path) IN
       /\ r.ok /\ r.matches = <<>>
       /\ result' = r
    /\ i' = i + 1
    /\ UNCHANGED <<inputs, pc, has_matches, sink, diag, flushed, outcome, cause,
                   exit_code>>

\* grep_files, arm Ok(result) if !result.is_empty(): what it writes.
grep_files_pieces_leading(r) ==
    output_file_separator(reporter) \o output_file_matches(reporter, r)

grep_files_pieces(r) ==
    (IF has_matches THEN output_file_separator(reporter) ELSE <<>>)
    \o output_file_matches(reporter, r)

\* grep_files, arm Ok(result) if !result.is_empty().
grep_files_matches ==
    /\ pc = "grep_files" /\ i <= Len(resolved)
    /\ resolved[i].ok
    /\ LET r == find_matches_from_file(matches_finder, resolved[i].path)
           pieces == grep_files_pieces(r)
       IN
       /\ r.ok /\ r.matches # <<>>
       /\ result' = r
       /\ \E k \in 0..Len(pieces) :
             /\ sink' = Written(pieces, k)
             /\ IF k = Len(pieces)
                THEN /\ has_matches' = TRUE
                     /\ i' = i + 1
                     /\ UNCHANGED <<pc, outcome, cause>>
                ELSE /\ Fail("write")
                     /\ UNCHANGED <<has_matches, i>>
    /\ UNCHANGED <<inputs, diag, flushed, exit_code>>

\* grep_files: the loop is over, Ok(has_matches).
grep_files_return ==
    /\ pc = "grep_files" /\ i > Len(resolved)
    /\ pc' = "flush"
    /\ UNCHANGED <<inputs, i, has_matches, result, sink, diag, flushed, outcome,
                   cause, exit_code>>

grep_files ==
    \/ grep_files_access_error
    \/ grep_files_read_error
    \/ grep_files_no_match
    \/ grep_files_matches
    \/ grep_files_return

\* grep_piped_stdin: what it writes for the scan result.
grep_piped_stdin_pieces_always(r) == output_stdin_matches(reporter, r)

grep_piped_stdin_pieces(r) ==
    IF r.matches # <<>> THEN output_stdin_matches(reporter, r) ELSE <<>>

\* grep_stdin with a pipe: grep_piped_stdin.
grep_piped_stdin ==
    /\ pc = "grep_piped_stdin"
    /\ LET r == find_matches_from_stdin(matches_finder, stdin)
           pieces == grep_piped_stdin_pieces(r)
       IN
       /\ result' = r
       /\ IF ~r.ok
          THEN /\ Fail("read")
               /\ UNCHANGED <<sink, has_matches>>
          ELSE \E k \in 0..Len(pieces) :
                  /\ sink' = Written(pieces, k)
                  /\ IF k = Len(pieces)
                     THEN /\ has_matches' = (r.matches # <<>>)
                          /\ pc' = "flush"
                          /\ UNCHANGED <<outcome, cause>>
                     ELSE /\ Fail("write")
                          /\ UNCHANGED has_matches
    /\ UNCHANGED <<inputs, i, diag, flushed, exit_code>>

\* grep_interactive_stdin: what one turn of the loop writes for the buffer
\* read_line filled.
grep_interactive_stdin_pieces_filter(buffer) ==
    IF is_match(matches_finder, trim_end(buffer))
    THEN output_line_text(reporter, trim_end(buffer))
    ELSE <<>>

grep_interactive_stdin_pieces(buffer) ==
    LET line == trim_end(buffer) IN output_line_text(reporter, line)

\* grep_stdin: what it returns once grep_interactive_stdin returned Ok(()).
grep_stdin_interactive_value_any ==
    \E k \in 1..Len(stdin) : stdin[k] # IoErr /\ is_match(matches_finder, stdin[k])

grep_stdin_interactive_value == TRUE

\* grep_stdin with a terminal: one turn of the loop of grep_interactive_stdin,
\* or its end and grep_stdin's Ok(true).
grep_interactive_stdin ==
    /\ pc = "grep_interactive_stdin"
    /\ IF i > Len(stdin)
       THEN /\ has_matches' = grep_stdin_interactive_value
            /\ pc' = "flush"
            /\ UNCHANGED <<i, sink, outcome, cause>>
       ELSE IF stdin[i] = IoErr
       THEN /\ Fail("read")
            /\ UNCHANGED <<i, sink, has_matches>>
       ELSE LET buffer == stdin[i] \o <<NL>>
                pieces == grep_interactive_stdin_pieces(buffer)
            IN \E k \in 0..Len(pieces) :
                  /\ sink' = Written(pieces, k)
                  /\ IF k = Len(pieces)
                     THEN /\ i' = i + 1
                          /\ UNCHANGED <<pc, outcome, cause, has_matches>>
                     ELSE /\ Fail("write")
                          /\ UNCHANGED <<i, has_matches>>
    /\ UNCHANGED <<inputs, result, diag, flushed, exit_code>>

\* grep: the result for the flag the mode returned.
grep_result_always_ok(found) == "Ok"

grep_result(found) == IF found THEN "Ok" ELSE "NoMatches"

\* grep, after the mode returned Ok(has_matches): writer.flush()?, then the
\* result.  Stdout is line buffered: with nothing pending after the last
\* newline the flush has nothing to write and cannot fail.
grep_flush ==
    /\ pc = "flush"
    /\ IF sink = <<>> \/ sink[Len(sink)] = NL
       THEN /\ flushed' = TRUE
            /\ outcome' = grep_result(has_matches)
            /\ cause' = cause
            /\ pc' = "return"
       ELSE \E ok \in BOOLEAN :
               /\ flushed' = ok
               /\ IF ok THEN /\ outcome' = grep_result(has_matches)
                             /\ cause' = cause
                             /\ pc' = "return"
                  ELSE Fail("flush")
    /\ UNCHANGED <<inputs, i, has_matches, result, sink, diag, exit_code>>

\* main: the exit status of the result of grep.
main ==
    /\ pc = "return"
    /\ exit_code' = CASE outcome = "Ok" -> 0
                      [] outcome = "NoMatches" -> 1
                      [] OTHER -> 2
    /\ pc' = "exit"
    /\ UNCHANGED <<inputs, i, has_matches, result, sink, diag, flushed, outcome, cause>>

Next ==
    \/ grep
    \/ grep_files
    \/ grep_piped_stdin
    \/ grep_interactive_stdin
    \/ grep_flush
    \/ main

Spec == Init /\ [][Next]_vars

----------------------------------------------------------------------------
(* The resolver at work: files_finder.find_files(), which grep_files calls *)
(* before its loop (src/src/grep/mod.rs, src/src/grep/finder.rs).          *)

\* What no step of the resolver assigns.
finder_frame ==
    <<pattern, count, invert_match, color, files_given, is_terminal, stdin,
      files, recursive, has_matches, result, sink, diag, flushed, outcome, cause,
      exit_code, file_paths, quite, format, input, lines>>

\* grep_files is entered with a non-empty args.files.
InitFinder ==
    /\ files \in BoundedSeq(InputPaths, MaxEntries) \ {<<>>}
    /\ recursive \in BOOLEAN
    /\ files_given = TRUE
    /\ resolved = <<>>
    /\ pattern = Foo
    /\ count = FALSE
    /\ invert_match = FALSE
    /\ color = FALSE
    /\ is_terminal = FALSE
    /\ stdin = <<>>
    /\ pc = "find_files"
    /\ i = 1
    /\ has_matches = FALSE
    /\ result = NoResult
    /\ sink = <<>>
    /\ diag = <<>>
    /\ flushed = FALSE
    /\ outcome = "running"
    /\ cause = "none"
    /\ exit_code = -1
    /\ ViewAtRest

\* The first error entry ends the iteration over args.files.
find_files_flat_map_until_error ==
    /\ pc = "find_files" /\ i <= Len(files)
    /\ LET entries == find_files_at_path(files_finder, files[i]) IN
       /\ resolved' = resolved \o entries
       /\ i' = IF \E n \in 1..Len(entries) : ~entries[n].ok
               THEN Len(files) + 1 ELSE i + 1
    /\ UNCHANGED <<finder_frame, pc>>

\* find_files: flat_map takes the next path of self.files and appends what
\* find_files_at_path returns for it.
find_files_flat_map ==
    /\ pc = "find_files" /\ i <= Len(files)
    /\ resolved' = resolved \o find_files_at_path(files_finder, files[i])
    /\ i' = i + 1
    /\ UNCHANGED <<finder_frame, pc>>

\* find_files: self.files is exhausted, collect() returns the vector.
find_files_collect ==
    /\ pc = "find_files" /\ i > Len(files)
    /\ pc' = "found"
    /\ UNCHANGED <<finder_frame, resolved, i>>

NextFinder ==
    \/ find_files_flat_map
    \/ find_files_collect

SpecFinder == InitFinder /\ [][NextFinder]_vars

----------------------------------------------------------------------------
(* RangeSpec and RangeSpecParser (src/src/view/range.rs)                   *)
(*                                                                         *)
(* The input is a sequence of bytes; the only character of more than one   *)
(* byte is e-acute, the two bytes C3 A9.  A RangePos (i64) is its sign and *)
(* the decimal digits of its magnitude, most significant first and without *)
(* leading zeros (zero has none): its values go beyond the integers the    *)
(* model checker computes with.                                            *)

\* i64::MAX = 9223372036854775807
I64MaxDigits == <<9, 2, 2, 3, 3, 7, 2, 0, 3, 6, 8, 5, 4, 7, 7, 5, 8, 0, 7>>

RangePos(neg, mag) == [neg |-> neg /\ mag # <<>>, mag |-> mag]

\* a <= b for two magnitudes
RECURSIVE LexLessEq(_, _)
LexLessEq(a, b) ==
    IF a = <<>> THEN TRUE
    ELSE IF Head(a) # Head(b) THEN Head(a) < Head(b)
    ELSE LexLessEq(Tail(a), Tail(b))

MagLessEq(a, b) == Len(a) < Len(b) \/ (Len(a) = Len(b) /\ LexLessEq(a, b))

\* Option<i64>: Some(v) while v <= i64::MAX, else None.
Checked(mag) ==
    IF MagLessEq(mag, I64MaxDigits) THEN [some |-> TRUE, value |-> mag]
    ELSE [some |-> FALSE, value |-> <<>>]

\* i64::checked_mul(value, 10) of a value >= 0
checked_mul_10(value) ==
    Checked(IF value = <<>> THEN <<>> ELSE Append(value, 0))

\* value + d for a digit d, with its carries
RECURSIVE AddDigit(_, _)
AddDigit(value, d) ==
    IF d = 0 THEN value
    ELSE IF value = <<>> THEN <<d>>
    ELSE LET last == value[Len(value)]
             front == SubSeq(value, 1, Len(value) - 1)
         IN IF last + d < 10 THEN Append(front, last + d)
            ELSE Append(AddDigit(front, 1), last + d - 10)

\* i64::checked_add(value, d) of a value >= 0 and a digit
checked_add(value, d) == Checked(AddDigit(value, d))

\* .and_then(|v| v.checked_add(d)) on the Option v
and_then_checked_add(v, d) == IF v.some THEN checked_add(v.value, d) ELSE v

\* The accumulation goes on beyond i64::MAX.
checked_mul_add_unchecked(value, d) ==
    [some |-> TRUE, value |-> AddDigit(IF value = <<>> THEN <<>> ELSE Append(value, 0), d)]

\* value.checked_mul(10).and_then(|v| v.checked_add(d))
checked_mul_add(value, d) == and_then_checked_add(checked_mul_10(value), d)

\* enum RangeSpec
Single(pos) == [variant |-> "Single", pos |-> pos]
Range(start, end) == [variant |-> "Range", start |-> start, end |-> end]
From(start) == [variant |-> "From", start |-> start]
To(end) == [variant |-> "To", end |-> end]
FromCount(start, cnt) == [variant |-> "FromCount", start |-> start, count |-> cnt]
List(specs) == [variant |-> "List", specs |-> specs]
Complement(spec) == [variant |-> "Complement", spec |-> spec]
All == [variant |-> "All"]

\* enum ParseError
Empty == [kind |-> "Empty"]
EarlyEof(text) == [kind |-> "EarlyEof", text |-> text]
InvalidNumber(text) == [kind |-> "InvalidNumber", text |-> text]
NumberTooLarge(text) == [kind |-> "NumberTooLarge", text |-> text]
InvalidRangeCount(cnt) == [kind |-> "InvalidRangeCount", count |-> cnt]
UnexpectedInput(expected, actual) ==
    [kind |-> "UnexpectedInput", expected |-> expected, actual |-> actual]
UnconsumedInput(text) == [kind |-> "UnconsumedInput", text |-> text]
\* Not a ParseError: the thread panics (a str slice off a char boundary).
Panic == [kind |-> "Panic"]

\* What a parsing function returns, and where it left self.pos.
Parsed(value, pos) == [ok |-> TRUE, value |-> value, pos |-> pos]
Failed(error, pos) == [ok |-> FALSE, error |-> error, pos |-> pos]

ExpectNumber == "expect number starting with '-' or digit(1-9)"
ExpectBasic == "'-' or digit(1-9) or '..'"

\* Option<u8>::None
None == "None"

is_ascii_digit(byte) == byte \in {"0", "1", "2", "3", "4", "5", "6", "7", "8", "9"}
is_ascii_whitespace(byte) == byte \in {" ", "\t", "\n", "\f", "\r"}
byte_to_digit(byte) == CHOOSE d \in 0..9 : Digits[d + 1] = byte

\* str::is_char_boundary: the index is not inside the two bytes C3 A9.
is_char_boundary(s, index) ==
    index = 0 \/ index >= Len(s) \/ s[index + 1] # "A9"

\* self.input[from..to], `from` being a char boundary
Slice(s, from, to) == SubSeq(s, from + 1, to)

peek_end(s, pos, len) == IF Len(s) < pos + len THEN Len(s) ELSE pos + len
peek(s, pos, len) == Slice(s, pos, peek_end(s, pos, len))
\* The slice of peek ends inside a character.
peek_panics(s, pos, len) == ~is_char_boundary(s, peek_end(s, pos, len))

peek_all(s, pos) == Slice(s, pos, Len(s))

\* find(..).unwrap_or(self.input.len()): the first index from pos on whose
\* byte is in the set, the length of the input when there is none.
find_or_len(s, pos, bytes) ==
    LET hits == {k \in pos..(Len(s) - 1) : s[k + 1] \in bytes}
    IN IF hits = {} THEN Len(s) ELSE CHOOSE k \in hits : \A h \in hits : k <= h

peek_until(s, pos, bytes) == Slice(s, pos, find_or_len(s, pos, bytes))

peek_until_whitespace(s, pos) ==
    peek_until(s, pos, {s[k] : k \in {n \in 1..Len(s) : is_ascii_whitespace(s[n])}})

peek_byte(s, pos) == IF pos < Len(s) THEN s[pos + 1] ELSE None

eof(s, pos) == pos >= Len(s)

\* take, with what peek(text.len()) gave.
take_peeked(pos, text, actual) ==
    IF actual # text THEN Failed(UnexpectedInput(text, actual), pos)
    ELSE Parsed(TRUE, pos + Len(text))

take(s, pos, text) ==
    IF peek_panics(s, pos, Len(text)) THEN Failed(Panic, pos)
    ELSE take_peeked(pos, text, peek(s, pos, Len(text)))

\* The end of the digits that stand at pos.
number_end(s, pos) ==
    LET hits == {k \in pos..(Len(s) - 1) : ~is_ascii_digit(s[k + 1])}
    IN IF hits = {} THEN Len(s) ELSE CHOOSE k \in hits : \A h \in hits : k <= h

\* parse_number: the loop over the digits after the first byte, and one
\* turn of it: number_text is self.input[start_pos..end], next the value
\* with the digit at pos.
RECURSIVE parse_number_digits(_, _, _, _, _)
RECURSIVE parse_number_digit(_, _, _, _, _, _)
parse_number_digit(s, start_pos, pos, neg, end, next) ==
    IF ~is_char_boundary(s, start_pos) \/ ~is_char_boundary(s, end)
    THEN Failed(Panic, pos)
    ELSE IF ~next.some THEN Failed(NumberTooLarge(Slice(s, start_pos, end)), pos)
    ELSE parse_number_digits(s, start_pos, pos + 1, neg, next.value)

parse_number_digits(s, start_pos, pos, neg, value) ==
    IF peek_byte(s, pos) = None \/ ~is_ascii_digit(peek_byte(s, pos))
    THEN Parsed(RangePos(neg, value), pos)
    ELSE parse_number_digit(s, start_pos, pos, neg, number_end(s, pos),
                            checked_mul_add(value, byte_to_digit(peek_byte(s, pos))))

\* parse_number: the match on the first byte.
parse_number_first(s, pos, byte) ==
    IF byte = None THEN Failed(EarlyEof(ExpectNumber), pos)
    ELSE IF byte = "-" THEN parse_number_digits(s, pos, pos + 1, TRUE, <<>>)
    ELSE IF byte = "0" THEN Parsed(RangePos(FALSE, <<>>), pos + 1)
    ELSE IF is_ascii_digit(byte)
    THEN parse_number_digits(s, pos, pos + 1, FALSE, <<byte_to_digit(byte)>>)
    ELSE Failed(InvalidNumber(peek_until_whitespace(s, pos)), pos)

parse_number(s, pos) == parse_number_first(s, pos, peek_byte(s, pos))

\* parse_to: Ok(RangeSpec::To(val)) for the result of parse_number()?
parse_to_val(val) ==
    IF ~val.ok THEN val ELSE Parsed(To(val.value), val.pos)

\* parse_to: after self.take("..")?
parse_to_taken(s, t) ==
    IF ~t.ok THEN t ELSE parse_to_val(parse_number(s, t.pos))

parse_to(s, pos) == parse_to_taken(s, take(s, pos, <<".", ".">>))

\* parse_basic: Ok(RangeSpec::Range(start, end)) for the result of the
\* second parse_number()?
parse_basic_end(start, end) ==
    IF ~end.ok THEN end ELSE Parsed(Range(start.value, end.value), end.pos)

\* parse_basic, arm Some(b'.'), after self.take("..")?
parse_basic_dots(s, start, t) ==
    IF ~t.ok THEN t
    ELSE IF peek_until_whitespace(s, t.pos) = <<>> THEN Parsed(From(start.value), t.pos)
    ELSE parse_basic_end(start, parse_number(s, t.pos))

\* parse_basic, arm Some(b'+'): the count parse_number()? gave
parse_basic_count(start, cnt) ==
    IF ~cnt.ok THEN cnt
    ELSE IF cnt.value.neg THEN Failed(InvalidRangeCount(cnt.value), cnt.pos)
    ELSE Parsed(FromCount(start.value, cnt.value), cnt.pos)

\* parse_basic, arm Some(b'+'), after self.take("+")?
parse_basic_plus(s, start, t) ==
    IF ~t.ok THEN t ELSE parse_basic_count(start, parse_number(s, t.pos))

\* parse_basic: after let start = self.parse_number()?
parse_basic_start(s, start) ==
    IF ~start.ok THEN start
    ELSE IF peek_byte(s, start.pos) = "."
    THEN parse_basic_dots(s, start, take(s, start.pos, <<".", ".">>))
    ELSE IF peek_byte(s, start.pos) = "+"
    THEN parse_basic_plus(s, start, take(s, start.pos, <<"+">>))
    ELSE Parsed(Single(start.value), start.pos)

\* parse_basic: the match on the first byte.
parse_basic_first(s, pos, byte) ==
    IF byte = None THEN Failed(EarlyEof(ExpectBasic), pos)
    ELSE IF byte = "-" \/ (is_ascii_digit(byte) /\ byte # "0")
    THEN parse_basic_start(s, parse_number(s, pos))
    ELSE IF byte = "." THEN parse_to(s, pos)
    ELSE Failed(InvalidNumber(peek_until_whitespace(s, pos)), pos)

parse_basic(s, pos) == parse_basic_first(s, pos, peek_byte(s, pos))

\* parse_list: the loop, `ranges` holding what it has pushed, and one turn
\* of it after self.parse_basic()?
RECURSIVE parse_list_from(_, _, _)
RECURSIVE parse_list_push(_, _, _)
parse_list_push(s, ranges, range) ==
    IF ~range.ok THEN range
    ELSE IF peek_byte(s, range.pos) = ","
    THEN parse_list_from(s, range.pos + 1, Append(ranges, range.value))
    ELSE IF peek_byte(s, range.pos) = None
    THEN parse_list_from(s, range.pos, Append(ranges, range.value))
    ELSE Parsed(List(Append(ranges, range.value)), range.pos)

parse_list_from(s, pos, ranges) ==
    IF eof(s, pos) THEN Parsed(List(ranges), pos)
    ELSE parse_list_push(s, ranges, parse_basic(s, pos))

parse_list(s, pos) == parse_list_from(s, pos, <<>>)

parse_list_or_basic(s, pos) ==
    IF \E k \in 1..Len(s) : s[k] = "," THEN parse_list(s, pos)
    ELSE parse_basic(s, pos)

start_with(s, pos, text) == peek(s, pos, Len(text)) = text

\* parse, arm "-": after self.take("-")?
parse_all(t) == IF ~t.ok THEN t ELSE Parsed(All, t.pos)

\* parse, arm "~": Complement of what parse_list_or_basic()? gave
parse_complement_of(range) ==
    IF ~range.ok THEN range ELSE Parsed(Complement(range.value), range.pos)

\* parse, arm "~": after self.take("~")?
parse_complement(s, t) ==
    IF ~t.ok THEN t ELSE parse_complement_of(parse_list_or_basic(s, t.pos))

\* parse, up to the check of the end of the input: the range it read.
parse_range(s) ==
    IF eof(s, 0) THEN Failed(Empty, 0)
    ELSE IF s = <<"-">> THEN parse_all(take(s, 0, <<"-">>))
    ELSE IF peek_panics(s, 0, 1) THEN Failed(Panic, 0)
    ELSE IF start_with(s, 0, <<"~">>) THEN parse_complement(s, take(s, 0, <<"~">>))
    ELSE parse_list_or_basic(s, 0)

\* The check of the end left out: the range that was read is returned.
parse_end_ignoring_rest(s, range) == range

\* parse, the check of the end of the input.
parse_end(s, range) ==
    IF ~eof(s, range.pos) THEN Failed(UnconsumedInput(peek_all(s, range.pos)), range.pos)
    ELSE range

\* parse: the check of the end follows a range that was read.
parse_checked(s, range) == IF ~range.ok THEN range ELSE parse_end(s, range)

\* RangeSpecParser::new(s).parse()
parse(s) == parse_checked(s, parse_range(s))

----------------------------------------------------------------------------
(* The range string at work: <RangeSpec as FromStr>::from_str, which clap  *)
(* calls on the value of -n / --lines (src/src/view/args.rs).              *)

\* The decimal digits of a magnitude, as text.
ToText(mag) == [k \in 1..Len(mag) |-> Digits[mag[k] + 1]]

\* i64::MAX and i64::MAX + 1, as text.
MaxText == ToText(I64MaxDigits)
OverText == ToText(AddDigit(I64MaxDigits, 1))

\* The pieces the range strings are put together from.
RangeTokens ==
    {<<"-">>, <<"0">>, <<"1">>, <<"5">>, <<"1", "2">>, <<".", ".">>, <<".">>,
     <<"+">>, <<",">>, <<"~">>, <<" ">>, <<"a">>, <<"C3", "A9">>, MaxText, OverText}

\* The strings of the tests of range.rs.
TestStrings ==
    {<<"-">>, <<"1", "0">>, <<"1", "0", ".", ".", "2", "0">>, <<".", ".", "2", "0">>,
     <<"1", "0", ".", ".">>, <<"1", "0", "+", "5">>,
     <<"1", ",", "3", ",", "5", ",", "1", "0", ".", ".", "2", "0">>,
     <<"~", "-", "5">>, <<>>, <<"1", "0", "+">>, <<".", ".">>, <<"a", "b", "c">>,
     <<"0", "1", "2">>, <<"1", "0", ".", ".", "a", "b", "c">>,
     [k \in 1..35 |-> "9"], <<"1", "0", "+", "-", "5">>,
     <<"-", "1", "0", "+", "-", "5">>, <<"~", "a", "b", "c">>,
     <<"1", "0", " ", "2", "0", " ", "3", "0">>}

\* What no step of the parser assigns.
range_frame ==
    <<pattern, count, invert_match, color, files_given, is_terminal, resolved, stdin,
      files, recursive, has_matches, result, sink, diag, flushed,
      file_paths, quite, format, input>>

\* Longer strings: lists with an open range, a leading zero after "..".
ListStrings ==
    {<<"1", ".", ".", ",", "5">>, <<"1", ",", "5", ".", ".">>,
     <<".", ".", "5", ",", "1", ".", ".", "1", "2">>,
     <<"1", "+", "5", ",", "-", "5">>, <<"~", "1", ",", "-", "1", "2">>,
     <<"1", ".", ".", "0", "1", "2">>, <<"1", "+", "0", "1", "2">>}

\* The range string: one of the tests, a longer string, or some tokens in
\* a row.
InitRange ==
    /\ \/ input \in TestStrings \cup ListStrings
       \/ \E tokens \in BoundedSeq(RangeTokens, MaxTokens) : input = Flatten(tokens)
    /\ lines = NoLines
    /\ pc = "parse"
    /\ i = 0
    /\ file_paths = <<>>
    /\ quite = FALSE
    /\ format = "Text"
    /\ pattern = <<>>
    /\ count = FALSE
    /\ invert_match = FALSE
    /\ color = FALSE
    /\ files_given = FALSE
    /\ is_terminal = FALSE
    /\ resolved = <<>>
    /\ stdin = <<>>
    /\ files = <<>>
    /\ recursive = FALSE
    /\ has_matches = FALSE
    /\ result = NoResult
    /\ sink = <<>>
    /\ diag = <<>>
    /\ flushed = FALSE
    /\ outcome = "running"
    /\ cause = "none"
    /\ exit_code = -1

\* from_str, with what parse read up to its check of the end.
from_str_range(range) ==
    /\ i' = range.pos
    /\ IF range.ok
       THEN /\ lines' = [ok |-> TRUE, range |-> range.value]
            /\ pc' = "parse_end"
            /\ UNCHANGED <<outcome, cause, exit_code>>
       ELSE IF range.error = Panic
       THEN /\ pc' = "exit"
            /\ outcome' = "Panic"
            /\ cause' = "slice"
            /\ exit_code' = 101
            /\ UNCHANGED lines
       ELSE /\ lines' = [ok |-> FALSE, error |-> range.error]
            /\ pc' = "parsed"
            /\ UNCHANGED <<outcome, cause, exit_code>>

\* from_str: the parser is made and parse reads the range; i is self.pos.
\* An Err is returned at once, a panic ends the process.
from_str ==
    /\ pc = "parse"
    /\ from_str_range(parse_range(input))
    /\ UNCHANGED range_frame

\* The Result parse returns.
ResultOf(range) ==
    IF range.ok THEN [ok |-> TRUE, range |-> range.value]
    ELSE [ok |-> FALSE, error |-> range.error]

\* from_str: parse has read a range and checks that the input ends there.
from_str_end ==
    /\ pc = "parse_end"
    /\ lines' = ResultOf(parse_end(input, Parsed(lines.range, i)))
    /\ pc' = "parsed"
    /\ UNCHANGED <<range_frame, i, outcome, cause, exit_code>>

NextRange ==
    \/ from_str
    \/ from_str_end

SpecRange == InitRange /\ [][NextRange]_vars

----------------------------------------------------------------------------
(* The view command: view_files (src/src/view/mod.rs) *)

\* const BYTES_PER_LINE, the default of args.bytes_per_line
BYTES_PER_LINE == 16

bytes_per_line == BYTES_PER_LINE

\* A file of 19 bytes that is no UTF-8 text: it holds a 0x00 and a 0xff.
BinaryPath == <<"b">>
BinaryBytes == FooBar \o <<"NUL", "FF">> \o FooBar \o <<" ", NL>> \o Foo

\* The paths given to view: text files, a file whose read fails, a file
\* that is no text, a path that does not exist.
ViewPaths == {<<"a">>, <<"c">>, <<"e">>, BinaryPath, <<"x">>}

\* The bytes a reader yields before its first error, the lines with their
\* line ends.
RECURSIVE BytesOf(_)
BytesOf(items) ==
    IF items = <<>> \/ Head(items) = IoErr THEN <<>>
    ELSE Head(items) \o <<NL>> \o BytesOf(Tail(items))

\* File::open(file_path) and the BufReader over it: what read_line yields
\* (items) and what read_exact reads from (bytes).
Reader(path) ==
    IF path = BinaryPath
    THEN [open_ok |-> TRUE, items |-> <<IoErr>>, bytes |-> BinaryBytes]
    ELSE [open_ok |-> FileSystem(path).open_ok,
          items |-> FileSystem(path).items,
          bytes |-> BytesOf(FileSystem(path).items)]

\* std::io::stdin().lock()
StdinReader == [open_ok |-> TRUE, items |-> stdin, bytes |-> BytesOf(stdin)]

\* What a reader function has printed, in pieces, and whether it returned Ok.
Viewed(ok, pieces) == [ok |-> ok, pieces |-> pieces]

\* println!("{}", buffer.trim_end()) of a line that read_line has read
print_line(item) == trim_end(item \o <<NL>>) \o <<NL>>

\* view_reader_text / view_interactive_stdin: the loop from the k-th line on
RECURSIVE view_reader_text_from(_, _, _)
view_reader_text_from(items, k, pieces) ==
    IF k > Len(items) THEN Viewed(TRUE, pieces)
    ELSE IF items[k] = IoErr THEN Viewed(FALSE, pieces)
    ELSE view_reader_text_from(items, k + 1, Append(pieces, print_line(items[k])))

view_reader_text(reader) == view_reader_text_from(reader.items, 1, <<>>)

view_interactive_stdin(reader) == view_reader_text_from(reader.items, 1, <<>>)

HexDigits == Digits \o <<"a", "b", "c", "d", "e", "f">>

\* format!("{:x}", n)
RECURSIVE LowerHex(_)
LowerHex(n) ==
    IF n < 16 THEN <<HexDigits[n + 1]>>
    ELSE Append(LowerHex(n \div 16), HexDigits[(n % 16) + 1])

\* the zero padding of {:0width$x}
ZeroPad(text, width) ==
    [k \in 1..(IF Len(text) < width THEN width - Len(text) ELSE 0) |-> "0"] \o text

\* The value of a byte of the files.
ByteValue(c) ==
    CASE c = "NUL" -> 0
      [] c = NL -> 10
      [] c = " " -> 32
      [] c = "a" -> 97
      [] c = "b" -> 98
      [] c = "f" -> 102
      [] c = "o" -> 111
      [] c = "r" -> 114
      [] c = "FF" -> 255

\* The match on a byte of the buffer.
print_byte(c) ==
    IF ByteValue(c) = 0 THEN <<".", " ">>
    ELSE IF ByteValue(c) = 255 THEN <<"#", "#", " ">>
    ELSE ZeroPad(LowerHex(ByteValue(c)), 2) \o <<" ">>

\* One turn of the loop of view_reader_hex: the position, the bytes, the
\* end of the line.
print_buffer(buffer, pos) ==
    << <<"[", "0", "x">> \o ZeroPad(LowerHex(pos), 8) \o <<"]", " ">> >>
    \o [k \in 1..Len(buffer) |-> print_byte(buffer[k])]
    \o << <<NL>> >>

\* view_reader_hex: read_exact fills the buffer while bytes_per_line bytes
\* are left; the loop ends at the first read that fails.
RECURSIVE view_reader_hex_from(_, _, _)
view_reader_hex_from(bytes, pos, pieces) ==
    IF Len(bytes) - pos < bytes_per_line THEN Viewed(TRUE, pieces)
    ELSE view_reader_hex_from(bytes, pos + bytes_per_line,
            pieces \o print_buffer(SubSeq(bytes, pos + 1, pos + bytes_per_line), pos))

view_reader_hex(reader) == view_reader_hex_from(reader.bytes, 0, <<>>)

view_reader_of_format(reader) ==
    IF format = "Text" THEN view_reader_text(reader) ELSE view_reader_hex(reader)

view_piped_stdin(reader) == view_reader_of_format(reader)

view_single_file_by_path(file_path) ==
    IF ~Reader(file_path).open_ok THEN Viewed(FALSE, <<>>)
    ELSE view_reader_of_format(Reader(file_path))

\* output_file_separator: println!("")
view_file_separator == <<NL>>

\* println!("==> {} <==", file_path.display())
view_file_header(file_path) == <<"=", "=", ">", " ">> \o file_path \o <<" ", "<", "=", "=", NL>>

\* What no step of view assigns.
view_frame ==
    <<pattern, count, invert_match, color, files_given, is_terminal, resolved, stdin,
      files, recursive, has_matches, result, flushed, file_paths, quite, format,
      input, lines>>

\* kf view with up to MaxEntries paths; without a path the standard input
\* is read.  The range is the default "-".
InitView ==
    /\ file_paths \in BoundedSeq(ViewPaths, MaxEntries)
    /\ quite \in BOOLEAN
    /\ format \in {"Text", "Hex"}
    /\ input = <<"-">>
    /\ lines = [ok |-> TRUE, range |-> All]
    /\ IF file_paths = <<>>
       THEN stdin \in BoundedSeq(StdinItems, MaxLines) /\ is_terminal \in BOOLEAN
       ELSE stdin = <<>> /\ is_terminal = FALSE
    /\ pattern = Foo
    /\ count = FALSE
    /\ invert_match = FALSE
    /\ color = FALSE
    /\ files_given = FALSE
    /\ resolved = <<>>
    /\ files = <<>>
    /\ recursive = FALSE
    /\ pc = "view_files"
    /\ i = 1
    /\ has_matches = FALSE
    /\ result = NoResult
    /\ sink = <<>>
    /\ diag = <<>>
    /\ flushed = FALSE
    /\ outcome = "running"
    /\ cause = "none"
    /\ exit_code = -1

\* view_files: the match on the number of paths.
view_files ==
    /\ pc = "view_files"
    /\ pc' = CASE Len(file_paths) = 0 -> "view_stdin"
               [] Len(file_paths) = 1 -> "view_single_file"
               [] OTHER -> "view_multiple_files"
    /\ UNCHANGED <<view_frame, i, sink, diag, outcome, cause, exit_code>>

\* println! / print! panics when standard output refuses the write: the
\* first k pieces were written.
PrintPanics(pieces, k) ==
    /\ sink' = Written(pieces, k)
    /\ pc' = "exit"
    /\ outcome' = "Panic"
    /\ cause' = "stdout"
    /\ exit_code' = 101

\* A reader function has run: its pieces are printed, and view_files
\* returns what it returned.
ViewReturns(viewed) ==
    \/ \E k \in 0..(Len(viewed.pieces) - 1) : PrintPanics(viewed.pieces, k)
    \/ /\ sink' = Written(viewed.pieces, Len(viewed.pieces))
       /\ pc' = "return"
       /\ outcome' = IF viewed.ok THEN "Ok" ELSE "IoError"
       /\ cause' = IF viewed.ok THEN "none" ELSE "read"
       /\ UNCHANGED exit_code

view_stdin ==
    /\ pc = "view_stdin"
    /\ IF is_terminal
       THEN ViewReturns(view_interactive_stdin(StdinReader))
       ELSE ViewReturns(view_piped_stdin(StdinReader))
    /\ UNCHANGED <<view_frame, i, diag>>

view_single_file ==
    /\ pc = "view_single_file"
    /\ ViewReturns(view_single_file_by_path(file_paths[1]))
    /\ UNCHANGED <<view_frame, i, diag>>

\* One turn of the loop of view_multiple_files: the pieces are printed,
\* and an Err of view_single_file_by_path goes to eprintln!, which panics
\* when standard error refuses the write.
ViewNextFile(ok, pieces) ==
    \/ /\ \E k \in 0..(Len(pieces) - 1) : PrintPanics(pieces, k)
       /\ UNCHANGED <<i, diag>>
    \/ /\ sink' = Written(pieces, Len(pieces))
       /\ i' = i + 1
       /\ diag' = IF ok THEN diag ELSE Append(diag, <<"view file error">>)
       /\ UNCHANGED <<pc, outcome, cause, exit_code>>
    \/ /\ ~ok
       /\ sink' = Written(pieces, Len(pieces))
       /\ pc' = "exit"
       /\ outcome' = "Panic"
       /\ cause' = "stderr"
       /\ exit_code' = 101
       /\ UNCHANGED <<i, diag>>

\* view_multiple_files, the turn of the loop for the i-th path: the
\* separator when i > 0 (here i > 1), the header, the file.
view_multiple_files_pieces(viewed) ==
    (IF i > 1 THEN <<view_file_separator>> ELSE <<>>)
    \o <<view_file_header(file_paths[i])>>
    \o viewed.pieces

view_multiple_files_next ==
    /\ pc = "view_multiple_files" /\ i <= Len(file_paths)
    /\ ViewNextFile(view_single_file_by_path(file_paths[i]).ok,
                    view_multiple_files_pieces(view_single_file_by_path(file_paths[i])))
    /\ UNCHANGED view_frame

\* view_multiple_files: the paths are exhausted, Ok(()) is returned.
view_multiple_files_return ==
    /\ pc = "view_multiple_files" /\ i > Len(file_paths)
    /\ pc' = "return"
    /\ outcome' = "Ok"
    /\ UNCHANGED <<view_frame, i, sink, diag, cause, exit_code>>

view_multiple_files ==
    \/ view_multiple_files_next
    \/ view_multiple_files_return

\* main: exit 0 on Ok; on Err(CliError::View(e)) eprintln! and exit 3.
main_view ==
    /\ pc = "return"
    /\ pc' = "exit"
    /\ \/ /\ outcome = "Ok"
          /\ exit_code' = 0
          /\ UNCHANGED <<diag, outcome, cause>>
       \/ /\ outcome # "Ok"
          /\ diag' = Append(diag, <<"view error">>)
          /\ exit_code' = 3
          /\ UNCHANGED <<outcome, cause>>
       \/ /\ outcome # "Ok"
          /\ outcome' = "Panic"
          /\ cause' = "stderr"
          /\ exit_code' = 101
          /\ UNCHANGED diag
    /\ UNCHANGED <<view_frame, i, sink>>

NextView ==
    \/ view_files
    \/ view_stdin
    \/ view_single_file
    \/ view_multiple_files
    \/ main_view

SpecView == InitView /\ [][NextView]_vars

----------------------------------------------------------------------------
(* Reading the sink and the inputs back, for the properties below *)

StripStyle(s) == SelectSeq(s, LAMBDA c : c \notin StyleTokens)

\* The places where s is cut at the separator sep: before its start, at
\* every sep, after its end.
CutsOf(s, sep) == {0, Len(s) + 1} \cup {k \in 1..Len(s) : s[k] = sep}

\* The n-th cut, counted from 0.
NthCut(cuts, n) == CHOOSE k \in cuts : Cardinality({j \in cuts : j < k}) = n

\* The pieces of s between its separators.
SplitOn(s, sep) ==
    [n \in 1..(Cardinality(CutsOf(s, sep)) - 1) |->
        SubSeq(s, NthCut(CutsOf(s, sep), n - 1) + 1, NthCut(CutsOf(s, sep), n) - 1)]

\* The newline-terminated lines of s, and what follows the last newline.
LinesOf(s) == SubSeq(SplitOn(s, NL), 1, Len(SplitOn(s, NL)) - 1)
RestOf(s) == SplitOn(s, NL)[Len(SplitOn(s, NL))]

DigitChars == {Digits[d] : d \in 1..Len(Digits)}
IsNumeral(ds) ==
    /\ ds # <<>>
    /\ \A k \in 1..Len(ds) : ds[k] \in DigitChars
    /\ (Len(ds) = 1 \/ ds[1] # "0")
DigitValue(c) == CHOOSE d \in 0..9 : Digits[d + 1] = c

RECURSIVE ParseNat(_)
ParseNat(ds) ==
    IF ds = <<>> THEN 0
    ELSE ParseNat(SubSeq(ds, 1, Len(ds) - 1)) * 10 + DigitValue(ds[Len(ds)])

RECURSIVE Ascending(_)
Ascending(S) ==
    IF S = {} THEN <<>>
    ELSE LET m == CHOOSE x \in S : \A y \in S : x <= y
         IN <<m>> \o Ascending(S \ {m})

\* The line is wanted: the pattern matches it XOR the invert flag.
Wanted(line) ==
    \/ pattern_is_match(pattern, line) /\ ~invert_match
    \/ ~pattern_is_match(pattern, line) /\ invert_match

WantedNums(items) == {k \in 1..Len(items) : Wanted(items[k])}

Readable(path) ==
    /\ FileSystem(path).open_ok
    /\ \A k \in 1..Len(FileSystem(path).items) : FileSystem(path).items[k] # IoErr

\* Resolution error, or a file whose scan ends in an I/O error.
Erroring(e) == ~e.ok \/ ~Readable(e.path)
ZeroMatch(e) == ~Erroring(e) /\ WantedNums(FileSystem(e.path).items) = {}
Producing(e) == ~Erroring(e) /\ WantedNums(FileSystem(e.path).items) # {}
NumMatches(e) == Cardinality(WantedNums(FileSystem(e.path).items))

\* The producing entries among the first n resolved entries, in order.
ProducingSeq(n) == SelectSeq(SubSeq(resolved, 1, n), Producing)

\* The files loop of this run has dealt with the entries before i.
Processed == i - 1

\* No write to the sink has failed: the sink holds complete blocks only.
SinkIntact == cause # "write"

BatchFiles == files_given /\ pc # "grep"
BatchStdin == ~files_given /\ ~is_terminal
InteractiveStdin == ~files_given /\ is_terminal

\* In matched-lines mode block k of the sink starts at this line: a label
\* line and one line per match for every block before it, and one
\* separator line between two blocks.
RECURSIVE BlockStart(_, _)
BlockStart(P, k) ==
    IF k = 1 THEN 1
    ELSE BlockStart(P, k - 1) + 1 + NumMatches(P[k - 1]) + 1

----------------------------------------------------------------------------
(* C1: in a batch-files run in matched-lines mode, whatever the order of   *)
(* resolution errors, scan errors, zero-match files and files with         *)
(* matches: the sink never starts with a blank line, and its blank lines   *)
(* are exactly the lines right before the label line of the 2nd, 3rd, ...  *)
(* producing source: one separator between two consecutive blocks, none    *)
(* for an erroring or zero-match entry.                                    *)
C1_SeparatorBetweenProducingSources ==
    (BatchFiles /\ ~count /\ SinkIntact) =>
        LET L == LinesOf(sink)
            P == ProducingSeq(Processed)
        IN /\ RestOf(sink) = <<>>
           /\ (L # <<>> => L[1] # <<>>)
           /\ \A k \in 1..Len(P) :
                 /\ BlockStart(P, k) <= Len(L)
                 /\ StripStyle(L[BlockStart(P, k)]) = P[k].path
           /\ {n \in 1..Len(L) : L[n] = <<>>}
                 = {BlockStart(P, k) - 1 : k \in 2..Len(P)}
           /\ (P # <<>> =>
                 Len(L) = BlockStart(P, Len(P)) + NumMatches(P[Len(P)]))
           /\ (P = <<>> => L = <<>>)

\* Two producing sources with an erroring or a zero-match entry between
\* them, all processed.
C1_Witness ==
    /\ BatchFiles /\ ~count /\ pc = "exit" /\ outcome = "Ok"
    /\ Len(resolved) = 3
    /\ Producing(resolved[1])
    /\ (Erroring(resolved[2]) \/ ZeroMatch(resolved[2]))
    /\ Producing(resolved[3])
    /\ Cardinality({n \in 1..Len(LinesOf(sink)) : LinesOf(sink)[n] = <<>>}) = 1

----------------------------------------------------------------------------
(* C2: in a batch-files run in count-only mode the sink holds exactly one  *)
(* line "<label>:<count>" for each processed file with at least one match, *)
(* in resolved order, and nothing else: no blank line, no line for a file  *)
(* without a match or for an erroring entry.                               *)
C2_CountModeOneLinePerProducingFile ==
    (BatchFiles /\ count /\ SinkIntact) =>
        LET L == LinesOf(sink)
            P == ProducingSeq(Processed)
        IN /\ RestOf(sink) = <<>>
           /\ Len(L) = Len(P)
           /\ \A k \in 1..Len(P) :
                 LET line == StripStyle(L[k])
                     label == P[k].path
                     numeral == SubSeq(line, Len(label) + 2, Len(line))
                 IN /\ Len(line) > Len(label) + 1
                    /\ SubSeq(line, 1, Len(label)) = label
                    /\ line[Len(label) + 1] = ":"
                    /\ IsNumeral(numeral)
                    /\ ParseNat(numeral) = NumMatches(P[k])

\* A completed count-only run over a file with matches, a file without and
\* another file with matches.
C2_Witness ==
    /\ BatchFiles /\ count /\ pc = "exit" /\ outcome = "Ok"
    /\ Len(resolved) = 3
    /\ Producing(resolved[1]) /\ ZeroMatch(resolved[2]) /\ Producing(resolved[3])
    /\ Len(LinesOf(sink)) = 2

----------------------------------------------------------------------------
(* The source a scan result was read from, and the line numbers in it *)

SourceItems(res) ==
    IF res.file_path = StdinPath THEN stdin ELSE FileSystem(res.file_path).items

LineNumbers(matches) == {matches[k].line_number : k \in 1..Len(matches)}

\* A rendered line "<line_number>:<text>".
IsNumbered(l) ==
    \E p \in 2..Len(l) : l[p] = ":" /\ IsNumeral(SubSeq(l, 1, p - 1))

NumberedLines(text) ==
    LET L == LinesOf(StripStyle(text))
    IN Cardinality({n \in 1..Len(L) : IsNumbered(L[n])})

----------------------------------------------------------------------------
(* C3: whenever a batch run in count-only mode writes the count of a       *)
(* source, the number written is the number of "<line_number>:<text>"      *)
(* lines the matched-lines rendering of the same scan result holds.        *)
C3_CountEqualsRenderedLines ==
    [][ (count /\ ~is_terminal /\ sink' # sink /\ cause' = "none") =>
          LET L == LinesOf(StripStyle(SubSeq(sink', Len(sink) + 1, Len(sink'))))
              label == IF files_given THEN result'.file_path \o <<":">> ELSE <<>>
              numeral == SubSeq(L[1], Len(label) + 1, Len(L[1]))
              lines_mode == [reporter EXCEPT !.count = FALSE]
              rendered == IF files_given
                          THEN output_file_matches(lines_mode, result')
                          ELSE output_stdin_matches(lines_mode, result')
          IN /\ Len(L) = 1
             /\ IsNumeral(numeral)
             /\ ParseNat(numeral) = NumberedLines(Flatten(rendered))
      ]_vars

\* A count-only run has written the count of a source with two matches or
\* more, not all of its lines.
C3_Witness ==
    /\ count /\ ~is_terminal /\ pc = "exit" /\ outcome = "Ok"
    /\ result.ok /\ Len(result.matches) >= 2
    /\ Len(result.matches) < Len(SourceItems(result))
    /\ sink # <<>>

----------------------------------------------------------------------------
(* C4: for every scanned source and every matcher, the line numbers the    *)
(* scan returns and those the scan with the invert flag flipped returns    *)
(* are disjoint and together are 1..N, N the number of lines; a line is    *)
(* returned iff the pattern matches it XOR invert.                         *)
C4_InvertPartitionsLines ==
    result.ok =>
        LET items == SourceItems(result)
            flipped == [matches_finder EXCEPT !.invert_match = ~invert_match]
            other == find_matches_from_reader(flipped, items)
            A == LineNumbers(result.matches)
            B == LineNumbers(other.matches)
        IN /\ other.ok
           /\ A \cap B = {}
           /\ A \cup B = 1..Len(items)
           /\ \A k \in 1..Len(items) :
                 (k \in A) <=> ((pattern_is_match(pattern, items[k]) /\ ~invert_match)
                                \/ (~pattern_is_match(pattern, items[k]) /\ invert_match))

\* A scan of three lines that returns some of them and not all.
C4_Witness ==
    /\ result.ok
    /\ Len(SourceItems(result)) = 3
    /\ LineNumbers(result.matches) # {}
    /\ LineNumbers(result.matches) # 1..3

----------------------------------------------------------------------------
(* C5: every LineMatch of a scan result carries the 1-based position of    *)
(* its line in the source and that line's original text; the matches are   *)
(* in input order, their line numbers strictly increasing, and no wanted   *)
(* line is missing.                                                        *)
C5_LineNumbersArePositions ==
    result.ok =>
        LET items == SourceItems(result)
            m == result.matches
        IN /\ \A k \in 1..Len(m) :
                 /\ m[k].line_number \in 1..Len(items)
                 /\ m[k].line = items[m[k].line_number]
                 /\ (k > 1 => m[k - 1].line_number < m[k].line_number)
           /\ Len(m) = Cardinality(WantedNums(items))

\* A scan whose first match is not the first line, and whose matched line
\* has leading and trailing blanks kept.
C5_Witness ==
    /\ result.ok
    /\ Len(result.matches) >= 2
    /\ result.matches[1].line_number > 1
    /\ \E k \in 1..Len(result.matches) : result.matches[k].line = PadBar

----------------------------------------------------------------------------
(* The outcome of a batch-files run *)

SomeFileMatched == \E j \in 1..Len(resolved) : Producing(resolved[j])

C6_Outcome ==
    /\ (files_given /\ pc = "flush") => (has_matches <=> SomeFileMatched)
    /\ (files_given /\ pc \in {"return", "exit"} /\ outcome \in {"Ok", "NoMatches"}) =>
          /\ outcome = "Ok" <=> SomeFileMatched
          /\ flushed
          /\ pc = "exit" => exit_code = (IF SomeFileMatched THEN 0 ELSE 1)

(* C6: a batch-files run that no fatal I/O failure ends returns Ok (exit   *)
(* status 0) iff some resolved file was scanned without error and had a    *)
(* match, and NoMatches (exit status 1) otherwise; the match-found flag,   *)
(* once true, stays true.                                                  *)
C6_SuccessIffSomeFileMatched ==
    [](C6_Outcome) /\ [][has_matches => has_matches']_vars

\* A run that found a match in its first file and went on through a file
\* without a match and an erroring entry exits with status 0.
C6_Witness ==
    /\ files_given /\ pc = "exit" /\ outcome = "Ok" /\ exit_code = 0
    /\ Len(resolved) = 3
    /\ Producing(resolved[1]) /\ ZeroMatch(resolved[2]) /\ Erroring(resolved[3])

----------------------------------------------------------------------------
(* C7: in BatchStdin, once the scan of stdin has returned: with no match   *)
(* nothing at all has been written to the sink and the match-found flag is *)
(* false; with a match the result has been rendered exactly once (one      *)
(* count line, or one "<line_number>:<text>" line per match in order) and  *)
(* the flag is true.                                                       *)
C7_PipedStdin ==
    (BatchStdin /\ pc \in {"flush", "return", "exit"} /\ cause = "none") =>
        LET W == Ascending(WantedNums(stdin))
            L == LinesOf(StripStyle(sink))
        IN /\ RestOf(sink) = <<>>
           /\ W = <<>> => (sink = <<>> /\ ~has_matches /\ outcome # "Ok")
           /\ W # <<>> =>
                 /\ has_matches /\ outcome # "NoMatches"
                 /\ count => (Len(L) = 1 /\ IsNumeral(L[1]) /\ ParseNat(L[1]) = Len(W))
                 /\ ~count =>
                       /\ Len(L) = Len(W)
                       /\ \A k \in 1..Len(W) :
                             \E p \in 2..Len(L[k]) :
                                /\ L[k][p] = ":"
                                /\ IsNumeral(SubSeq(L[k], 1, p - 1))
                                /\ ParseNat(SubSeq(L[k], 1, p - 1)) = W[k]
                                /\ SubSeq(L[k], p + 1, Len(L[k])) = trim(stdin[W[k]])

\* Piped input of two lines or more, none of them a match, in count-only
\* mode: the run ends with an empty sink and NoMatches.
C7_Witness ==
    /\ BatchStdin /\ pc = "exit" /\ count
    /\ Len(stdin) >= 2 /\ WantedNums(stdin) = {}
    /\ outcome = "NoMatches" /\ sink = <<>> /\ ~has_matches

----------------------------------------------------------------------------
(* C8: in InteractiveStdin every line read so far has produced exactly one *)
(* line of output, in input order, whether or not it matches and whatever  *)
(* invert and count_only are.                                              *)
C8_InteractiveEchoesEveryLine ==
    (InteractiveStdin /\ pc # "grep" /\ SinkIntact) =>
        LET L == LinesOf(StripStyle(sink))
        IN /\ RestOf(sink) = <<>>
           /\ Len(L) = i - 1
           /\ \A k \in 1..Len(L) : trim(L[k]) = trim(stdin[k])

\* Three lines entered, none wanted by the matcher, count_only set: three
\* lines written.
C8_Witness ==
    /\ InteractiveStdin /\ pc = "exit" /\ count
    /\ Len(stdin) = 3 /\ WantedNums(stdin) = {}
    /\ \E k \in 1..3 : stdin[k] # stdin[1]
    /\ Len(LinesOf(sink)) = 3

----------------------------------------------------------------------------
(* C9: an InteractiveStdin run that has read to end-of-input ends in       *)
(* success: the flag returned is true, grep returns Ok and the exit status *)
(* is 0, also when no line matched or none was entered.                    *)
C9_InteractiveAlwaysSucceeds ==
    (InteractiveStdin /\ i > Len(stdin)) =>
        /\ pc = "flush" => has_matches
        /\ pc \in {"return", "exit"} => (outcome = "Ok" /\ has_matches /\ flushed)
        /\ pc = "exit" => exit_code = 0

\* Lines were entered, the pattern matched none of them, the run has
\* exited.
C9_Witness ==
    /\ InteractiveStdin /\ pc = "exit" /\ i > Len(stdin)
    /\ Len(stdin) >= 1
    /\ \A k \in 1..Len(stdin) : ~pattern_is_match(pattern, stdin[k])
    /\ ~invert_match
    /\ exit_code = 0

----------------------------------------------------------------------------
(* The run of the files loop over a sequence of entries none of which     *)
(* fails: what it writes and the flag it returns.                          *)
RECURSIVE RunOver(_, _, _)
RunOver(entries, found, out) ==
    IF entries = <<>> THEN [sink |-> out, has_matches |-> found]
    ELSE LET r == find_matches_from_file(matches_finder, Head(entries).path)
         IN IF Head(entries).ok /\ r.ok /\ r.matches # <<>>
            THEN RunOver(Tail(entries), TRUE,
                     out \o Flatten((IF found THEN output_file_separator(reporter) ELSE <<>>)
                                    \o output_file_matches(reporter, r)))
            ELSE RunOver(Tail(entries), found, out)

NotErroring(e) == ~Erroring(e)
WithoutErrors == RunOver(SelectSeq(resolved, NotErroring), FALSE, <<>>)

(* C10: in a batch-files run a resolution error entry or a scan I/O error  *)
(* never stops the loop: when the run is over and no write to the sink     *)
(* failed, no resolved entry after the one the run ended on is left        *)
(* unprocessed, and the sink and the match-found flag are those of the run *)
(* over the resolved sequence with its erroring entries removed.           *)
C10_ErrorsNeverStopTheLoop ==
    (files_given /\ pc \in {"return", "exit"} /\ SinkIntact) =>
        /\ i >= Len(resolved)
        /\ sink = WithoutErrors.sink
        /\ has_matches = WithoutErrors.has_matches

\* The same statement for the runs in which stderr accepted every
\* diagnostic: it holds there.
C10_WhileStderrAccepts ==
    (files_given /\ pc \in {"return", "exit"} /\ SinkIntact /\ cause # "stderr") =>
        /\ i > Len(resolved)
        /\ sink = WithoutErrors.sink
        /\ has_matches = WithoutErrors.has_matches

----------------------------------------------------------------------------
(* The directory tree, read back for the properties of the resolver *)

\* Every path beneath the directory, at any depth.
RECURSIVE Beneath(_)
Beneath(dir_path) ==
    LET names == Node(dir_path).names
        children == {Join(dir_path, names[k]) : k \in 1..Len(names)}
    IN children \cup UNION {Beneath(c) : c \in children}

FilesBeneath(dir_path) == {q \in Beneath(dir_path) : Node(q).kind = "file"}

\* read_dir succeeds on the directory and on every directory beneath it.
ReadableBeneath(dir_path) ==
    \A q \in {dir_path} \cup Beneath(dir_path) :
        Node(q).kind = "dir" => Node(q).readable

\* The entry of the directory that is, or leads to, the path beneath it:
\* its position in the directory's read order.
ChildTowards(dir_path, q) ==
    CHOOSE k \in 1..Len(Node(dir_path).names) :
        LET c == Join(dir_path, Node(dir_path).names[k])
        IN q = c \/ IsPrefix(c \o <<"/">>, q)

\* Depth-first directory-read order of two different files beneath the
\* directory: where their ways part, the entry read first comes first.
RECURSIVE ReadBefore(_, _, _)
ReadBefore(dir_path, f, g) ==
    LET kf == ChildTowards(dir_path, f)
        kg == ChildTowards(dir_path, g)
    IN IF kf # kg THEN kf < kg
       ELSE ReadBefore(Join(dir_path, Node(dir_path).names[kf]), f, g)

\* The entries the step from this state to the next appended.
Appended == SubSeq(resolved', Len(resolved) + 1, Len(resolved'))

\* The resolver is about to take this path.
Resolving == pc = "find_files" /\ i <= Len(files)

----------------------------------------------------------------------------
(* C11: the resolver processes every input path whatever the outcome of    *)
(* the others: at every moment the resolved sequence is the concatenation, *)
(* in input-list order, of the entries each path taken so far produces on  *)
(* its own, and when the resolver returns every input path has been taken. *)
C11_ConcatenationInInputOrder ==
    (pc \in {"find_files", "found"}) =>
        /\ resolved =
              Flatten([k \in 1..(i - 1) |-> find_files_at_path(files_finder, files[k])])
        /\ (pc = "found" => i - 1 = Len(files))

\* An erroring path between two paths that resolve to files.
C11_Witness ==
    /\ pc = "found" /\ Len(files) = 3
    /\ is_file(files[1]) /\ ~metadata(files[2]).ok /\ is_dir(files[3])
    /\ recursive
    /\ Len(resolved) > 3
    /\ resolved[1].ok /\ ~resolved[2].ok /\ resolved[Len(resolved)].ok

----------------------------------------------------------------------------
(* C12: for an input path that is a directory, without -r the resolver     *)
(* appends exactly one error entry and no file entry; with -r, when every  *)
(* directory beneath it is readable, it appends exactly the regular files  *)
(* beneath it at any depth, each once as a success entry, in depth-first   *)
(* directory-read order.                                                   *)
C12_DirectoryExpansion ==
    [][(Resolving /\ is_dir(files[i])) =>
          /\ ~recursive => (Len(Appended) = 1 /\ ~Appended[1].ok)
          /\ (recursive /\ ReadableBeneath(files[i])) =>
                /\ \A n \in 1..Len(Appended) : Appended[n].ok
                /\ {Appended[n].path : n \in 1..Len(Appended)} = FilesBeneath(files[i])
                /\ Len(Appended) = Cardinality(FilesBeneath(files[i]))
                /\ \A m, n \in 1..Len(Appended) :
                      m < n => ReadBefore(files[i], Appended[m].path, Appended[n].path)
      ]_vars

\* The tree t with -r: the files of t/b between t/1 and t/3.
C12_Witness ==
    /\ pc = "found" /\ recursive /\ files = << <<"t">> >>
    /\ resolved = << OkEntry(<<"t", "/", "1">>), OkEntry(<<"t", "/", "b", "/", "2">>),
                     OkEntry(<<"t", "/", "b", "/", "4">>), OkEntry(<<"t", "/", "3">>) >>

----------------------------------------------------------------------------
(* C13: every input path that cannot be turned into a scannable file       *)
(* yields an error entry: a path whose metadata lookup fails yields one    *)
(* error carrying the I/O failure, and a path that exists but is neither a *)
(* regular file nor a directory also yields one error entry.               *)
C13_UnscannablePathYieldsError ==
    [][(Resolving /\ ~is_file(files[i]) /\ ~is_dir(files[i])) =>
          /\ Len(Appended) = 1
          /\ ~Appended[1].ok
          /\ (~metadata(files[i]).ok => Appended[1].error = "NotFound")
      ]_vars

----------------------------------------------------------------------------
(* The block of a file, read back *)

\* t is the line without its leading and trailing white space.
IsTrimOf(t, line) ==
    \E a \in 0..Len(line) : \E b \in a..Len(line) :
        /\ t = SubSeq(line, a + 1, b)
        /\ \A n \in (1..a) \cup ((b + 1)..Len(line)) : line[n] \in WhiteSpace
        /\ (t # <<>> => (t[1] \notin WhiteSpace /\ t[Len(t)] \notin WhiteSpace))

\* The rendered line is "<number>:<text>", text the trimmed line.
IsMatchLine(l, number, line) ==
    \E p \in 2..Len(l) :
        /\ l[p] = ":"
        /\ IsNumeral(SubSeq(l, 1, p - 1))
        /\ ParseNat(SubSeq(l, 1, p - 1)) = number
        /\ IsTrimOf(SubSeq(l, p + 1, Len(l)), line)

\* What the step wrote after the separator, if it wrote one.
BlockWritten ==
    LET written == SubSeq(sink', Len(sink) + 1, Len(sink'))
    IN IF has_matches THEN Tail(written) ELSE written

(* C14: in matched-lines mode with color off, the block the files loop     *)
(* writes for a file with matches is the file's label on its own line,     *)
(* then one line "<line_number>:<trimmed text>" per wanted line, in line   *)
(* order, and nothing else; for pattern foo over the lines foo, bar,       *)
(* foobar it is the label, "1:foo", "3:foobar", and with invert the label  *)
(* and "2:bar".                                                            *)
C14_BlockOfAFile ==
    [][(pc = "grep_files" /\ ~count /\ ~color /\ i' = i + 1 /\ sink' # sink) =>
          LET L == LinesOf(BlockWritten)
              path == resolved[i].path
              items == FileSystem(path).items
              W == Ascending(WantedNums(items))
          IN /\ RestOf(BlockWritten) = <<>>
             /\ W # <<>>
             /\ Len(L) = 1 + Len(W)
             /\ L[1] = path
             /\ \A k \in 1..Len(W) : IsMatchLine(L[k + 1], W[k], items[W[k]])
             /\ (items = <<Foo, Bar, FooBar>> /\ pattern = Foo) =>
                   L = IF invert_match
                       THEN <<path, <<"2", ":", "b", "a", "r">> >>
                       ELSE <<path, <<"1", ":", "f", "o", "o">>,
                              <<"3", ":", "f", "o", "o", "b", "a", "r">> >>
      ]_vars

\* The blocks of the padded line " bar " and of foo, bar, foobar under the
\* inverted pattern foo, one after the other.
C14_Witness ==
    /\ files_given /\ ~count /\ ~color /\ invert_match /\ pattern = Foo
    /\ resolved = <<OkEntry(<<"c">>), OkEntry(<<"a">>)>>
    /\ pc = "exit"
    /\ LinesOf(sink) = << <<"c">>, <<"1", ":", "b", "a", "r">>, <<>>,
                          <<"a">>, <<"2", ":", "b", "a", "r">> >>

----------------------------------------------------------------------------
(* The block of piped input *)

\* The scan of piped stdin has returned Ok and what it gave is written.
PipedBlockWritten ==
    /\ BatchStdin /\ ~count
    /\ pc \in {"flush", "return", "exit"}
    /\ result.ok /\ SinkIntact

C20_WantedStdin == Ascending(WantedNums(stdin))

(* C20 as stated: in BatchStdin matched-lines mode the block of piped      *)
(* input with a match starts with the label line "stdin", followed by one  *)
(* "<line_number>:<trimmed text>" line per match.                          *)
C20_PipedBlockStartsWithLabel ==
    (PipedBlockWritten /\ has_matches) =>
        LET L == LinesOf(StripStyle(sink))
        IN /\ Len(L) = 1 + Len(C20_WantedStdin)
           /\ L[1] = StdinPath

(* C20, amended: in BatchStdin matched-lines mode the block of piped input *)
(* is one "<line_number>:<trimmed text>" line per match, in line order,    *)
(* and nothing else: no label line is written, the label "stdin" of the    *)
(* scan result does not appear in the output.                              *)
C20_PipedBlockHasNoLabel ==
    PipedBlockWritten =>
        LET L == LinesOf(StripStyle(sink))
            W == C20_WantedStdin
        IN /\ RestOf(sink) = <<>>
           /\ Len(L) = Len(W)
           /\ \A k \in 1..Len(W) : IsMatchLine(L[k], W[k], stdin[W[k]])
           /\ \A k \in 1..Len(L) : L[k] # StdinPath

\* Piped input of three lines, two of them wanted, rendered.
C20_Witness ==
    /\ PipedBlockWritten /\ has_matches /\ pc = "exit"
    /\ Len(stdin) = 3
    /\ Len(C20_WantedStdin) = 2
    /\ Len(LinesOf(sink)) = 2

----------------------------------------------------------------------------
(* The range string, read by its grammar, for the properties of the parser *)

NonZeroDigits == DigitChars \ {"0"}

\* The number of digits in a row from the index `from` (1-based) on.
DigitRun(s, from) ==
    LET stops == {k \in from..Len(s) : s[k] \notin DigitChars}
    IN IF stops = {} THEN Len(s) + 1 - from
       ELSE (CHOOSE k \in stops : \A j \in stops : k <= j) - from

\* The text of the number that stands at pos (0-based): a "-" if there is
\* one, and the digits that follow, to the last of them.
NumeralAt(s, pos) ==
    LET sign == IF pos < Len(s) /\ s[pos + 1] = "-" THEN 1 ELSE 0
    IN SubSeq(s, pos + 1, pos + sign + DigitRun(s, pos + sign + 1))

DigitsOf(t) == IF t # <<>> /\ t[1] = "-" THEN Tail(t) ELSE t

\* The digits without their leading zeros.
StripZeros(ds) ==
    LET others == {k \in 1..Len(ds) : ds[k] # "0"}
    IN IF others = {} THEN <<>>
       ELSE SubSeq(ds, CHOOSE k \in others : \A j \in others : k <= j, Len(ds))

\* The magnitude written by the digits ds is greater than the one written
\* by the digits M.
Exceeds(ds, M) ==
    LET D == StripZeros(ds) IN
    \/ Len(D) > Len(M)
    \/ /\ Len(D) = Len(M)
       /\ \E k \in 1..Len(D) :
             /\ \A j \in 1..(k - 1) : D[j] = M[j]
             /\ DigitValue(D[k]) > DigitValue(M[k])

\* The magnitude written by the digits is greater than i64::MAX.
TooLarge(ds) == Exceeds(ds, MaxText)

\* The number the text writes is one of i64: at most i64::MAX, and at
\* least i64::MIN = -(i64::MAX + 1).
FitsI64(t) ==
    IF t # <<>> /\ t[1] = "-" THEN ~Exceeds(DigitsOf(t), OverText)
    ELSE ~Exceeds(DigitsOf(t), MaxText)

\* The number a text denotes.
NumberOf(t) ==
    LET D == StripZeros(DigitsOf(t))
    IN [neg |-> t[1] = "-" /\ D # <<>>, mag |-> [k \in 1..Len(D) |-> DigitValue(D[k])]]

\* A number as the range strings write it: an optional "-", a digit 1-9,
\* digits; it fits the position type.
IsNumber(t) ==
    /\ t # <<>>
    /\ NumeralAt(t, 0) = t
    /\ DigitsOf(t) # <<>>
    /\ DigitsOf(t)[1] \in NonZeroDigits
    /\ ~TooLarge(DigitsOf(t))

\* The index of the first c in t, 0 when there is none.
IndexOf(t, c) ==
    IF \E k \in 1..Len(t) : t[k] = c
    THEN CHOOSE k \in 1..Len(t) : t[k] = c /\ \A j \in 1..(k - 1) : t[j] # c
    ELSE 0

\* The basic forms A, A..B, A.., ..B, A+C.
IsBasicForm(t) ==
    LET d == IndexOf(t, ".")
        q == IndexOf(t, "+")
        A == SubSeq(t, 1, (IF d > 0 THEN d ELSE q) - 1)
        B == SubSeq(t, d + 2, Len(t))
        C == SubSeq(t, q + 1, Len(t))
    IN IF d = 0 /\ q = 0 THEN IsNumber(t)
       ELSE IF d > 0
       THEN /\ q = 0
            /\ d < Len(t) /\ t[d + 1] = "."
            /\ (A = <<>> \/ IsNumber(A))
            /\ (B = <<>> \/ IsNumber(B))
            /\ ~(A = <<>> /\ B = <<>>)
       ELSE IsNumber(A) /\ IsNumber(C) /\ C[1] # "-"

\* The variant the claim gives a basic form.
BasicFormOf(t) ==
    LET d == IndexOf(t, ".")
        q == IndexOf(t, "+")
        A == SubSeq(t, 1, (IF d > 0 THEN d ELSE q) - 1)
        B == SubSeq(t, d + 2, Len(t))
        C == SubSeq(t, q + 1, Len(t))
    IN IF d = 0 /\ q = 0 THEN Single(NumberOf(t))
       ELSE IF d > 0
       THEN IF A = <<>> THEN To(NumberOf(B))
            ELSE IF B = <<>> THEN From(NumberOf(A))
            ELSE Range(NumberOf(A), NumberOf(B))
       ELSE FromCount(NumberOf(A), NumberOf(C))

HasComma(t) == \E k \in 1..Len(t) : t[k] = ","

\* A basic form, or basic forms with commas between them.
IsListOrBasicForm(t) ==
    LET items == SplitOn(t, ",")
    IN IF HasComma(t) THEN \A k \in 1..Len(items) : IsBasicForm(items[k])
       ELSE IsBasicForm(t)

ListOrBasicFormOf(t) ==
    LET items == SplitOn(t, ",")
    IN IF HasComma(t) THEN List([k \in 1..Len(items) |-> BasicFormOf(items[k])])
       ELSE BasicFormOf(t)

IsForm(s) ==
    \/ s = <<"-">>
    \/ IsListOrBasicForm(s)
    \/ s # <<>> /\ s[1] = "~" /\ IsListOrBasicForm(Tail(s))

FormOf(s) ==
    IF s = <<"-">> THEN All
    ELSE IF s[1] = "~" THEN Complement(ListOrBasicFormOf(Tail(s)))
    ELSE ListOrBasicFormOf(s)

\* from_str has returned, or panicked.
ParseOver == pc \in {"parsed", "exit"}

(* C15: the parse of a range string maps each syntactic form to its        *)
(* variant: "-" to All, A to Single(A), A..B to Range(A,B), A.. to         *)
(* From(A), ..B to To(B), A+C to FromCount(A,C), basic forms with commas   *)
(* between them to the List of their parses in the same order, and ~X to   *)
(* the Complement of the parse of X; A and B may be negative.              *)
C15_FormsMapToVariants ==
    (ParseOver /\ IsForm(input)) => lines = [ok |-> TRUE, range |-> FormOf(input)]

\* The text of the input from pos (0-based) to its end.
RestFrom(s, pos) == SubSeq(s, pos + 1, Len(s))

TenTwentyThirty == <<"1", "0", " ", "2", "0", " ", "3", "0">>

NumberStartsAt(s, pos) == pos < Len(s) /\ s[pos + 1] \in {"-"} \cup NonZeroDigits

\* Where the range begins: after the "~" of a complement, else at 0.
RangeStart(s) == IF s # <<>> /\ s[1] = "~" THEN 1 ELSE 0

DotsAt(s, pos) == pos + 2 <= Len(s) /\ s[pos + 1] = "." /\ s[pos + 2] = "."

\* The positions (0-based) of s where the grammar wants a number: the
\* start of the range, the end after "A..", the count after "A+", the end
\* after a leading "..".
NumberPositions(s) ==
    LET st == RangeStart(s)
        A == NumeralAt(s, st)
        e == st + Len(A)
    IN IF s = <<"-">> \/ st >= Len(s) THEN {}
       ELSE IF DotsAt(s, st) THEN {p \in {st + 2} : p < Len(s)}
       ELSE IF s[st + 1] = "." THEN {}
       ELSE {st}
            \cup {p \in {e + 2} : /\ IsNumber(A) /\ DotsAt(s, e)
                                   /\ p < Len(s) /\ ~is_ascii_whitespace(s[p + 1])}
            \cup {p \in {e + 1} : IsNumber(A) /\ e < Len(s) /\ s[e + 1] = "+" /\ p < Len(s)}

NonAscii(s) == \E k \in 1..Len(s) : ~is_char_boundary(s, k - 1) \/ ~is_char_boundary(s, k)

\* The text t of a number was read by parse_number with the result r: too
\* large a number is refused with its text, a number that is read has the
\* value its text writes, and the read does not panic.
NumberRead(pos, t, r) ==
    /\ ~FitsI64(t) => (~r.ok /\ r.error = NumberTooLarge(t))
    /\ r.ok => (r.value = NumberOf(t) /\ r.pos = pos + Len(t))
    /\ ~r.ok => r.error # Panic

\* The parse has refused the number whose text is t.
NumberRefused(t) ==
    ~FitsI64(t) => (pc = "parsed" /\ lines = [ok |-> FALSE, error |-> NumberTooLarge(t)])

\* The text of a NumberTooLarge is a number of the input that is too large.
RefusedIsTooLarge(t) ==
    /\ TooLarge(DigitsOf(t))
    /\ \E p \in 0..(Len(input) - 1) : NumberStartsAt(input, p) /\ t = NumeralAt(input, p)

(* C17: a number that does not fit i64 is rejected with NumberTooLarge     *)
(* carrying the full text of the number, wherever a number is read; the    *)
(* value never wraps (a number that is read has the value its text         *)
(* writes) and the parse never panics on account of a number.              *)
C17_NumberTooLarge ==
    /\ pc = "parse" =>
         \A p \in 0..(Len(input) - 1) :
            (NumberStartsAt(input, p) /\ (p = 0 \/ input[p] \notin DigitChars)) =>
               NumberRead(p, NumeralAt(input, p), parse_number(input, p))
    /\ ParseOver =>
         /\ \A p \in NumberPositions(input) :
               NumberStartsAt(input, p) => NumberRefused(NumeralAt(input, p))
         /\ (pc = "parsed" /\ ~lines.ok /\ lines.error.kind = "NumberTooLarge") =>
               RefusedIsTooLarge(lines.error.text)
         /\ pc = "exit" => NonAscii(input)

\* The end of a range is i64::MAX + 1: the parse has returned
\* NumberTooLarge with its text.
C17_Witness ==
    /\ pc = "parsed"
    /\ input = <<"1", ".", ".">> \o OverText
    /\ lines = [ok |-> FALSE, error |-> NumberTooLarge(OverText)]

\* The text from pos to the next whitespace, or to the end.
UpToWhitespace(s, pos) ==
    LET stops == {k \in (pos + 1)..Len(s) : is_ascii_whitespace(s[k])}
    IN SubSeq(s, pos + 1,
              IF stops = {} THEN Len(s)
              ELSE (CHOOSE k \in stops : \A j \in stops : k <= j) - 1)

(* C18: every number must start with "-" or a digit 1-9; any other start,  *)
(* a leading "0" included, is rejected with InvalidNumber carrying the     *)
(* text up to the next whitespace, wherever the number stands: the start,  *)
(* the end or the count of a range.                                        *)
C18_NumberStart ==
    ParseOver =>
        \A p \in NumberPositions(input) :
            ~NumberStartsAt(input, p) =>
                /\ pc = "parsed"
                /\ lines = [ok |-> FALSE, error |-> InvalidNumber(UpToWhitespace(input, p))]

----------------------------------------------------------------------------
(* The output of view for several files *)

HeaderLineOf(path) == <<"=", "=", ">", " ">> \o path \o <<" ", "<", "=", "=", NL>>

\* The text holds the line: at its start or after a line end.
HasLine(text, line) ==
    \E k \in 0..(Len(text) - Len(line)) :
        /\ k = 0 \/ text[k] = NL
        /\ SubSeq(text, k + 1, k + Len(line)) = line

\* What view prints of the file itself.
ContentOf(path) == Flatten(view_single_file_by_path(path).pieces)

\* The first n files, each with its header before its content and a blank
\* line before every header except the first.
RECURSIVE WithHeaders(_, _)
WithHeaders(paths, n) ==
    IF n = 0 THEN <<>>
    ELSE WithHeaders(paths, n - 1)
         \o (IF n > 1 THEN <<NL>> ELSE <<>>)
         \o HeaderLineOf(paths[n]) \o ContentOf(paths[n])

QuietHasNoHeader ==
    (Len(file_paths) > 1 /\ quite) =>
        \A k \in 1..Len(file_paths) : ~HasLine(sink, HeaderLineOf(file_paths[k]))

LoudHasHeaders ==
    (Len(file_paths) > 1 /\ ~quite /\ pc = "view_multiple_files") =>
        sink = WithHeaders(file_paths, i - 1)

(* C19: when several files are viewed with the quiet flag set, no          *)
(* "==> path <==" header line is printed for any file; without the flag    *)
(* each file's content is preceded by its header, with one blank line      *)
(* before every header except the first.                                   *)
C19_QuietSuppressesHeaders == QuietHasNoHeader /\ LoudHasHeaders

----------------------------------------------------------------------------
(* The end of a grep invocation *)

\* grep has returned to main, with Ok or with an Err.
GrepReturned == pc \in {"return", "exit"} /\ outcome # "Panic"

(* C21: on every path on which a grep invocation ends (matches found, no   *)
(* matches, or a failure part-way through) the sink is flushed after the   *)
(* last write made to it and before grep returns: once grep has returned   *)
(* with something written to the sink, writer.flush() has returned Ok.     *)
(* The runs taken are those in which no write to the sink has failed.      *)
C21_FlushedBeforeReturn ==
    (GrepReturned /\ SinkIntact /\ sink # <<>>) => flushed

(* C22: the only failure that ends a batch-files invocation before all     *)
(* resolved entries have been processed is a failure to write to the       *)
(* output sink; a resolution error, a file open or read error and a        *)
(* failure to write a diagnostic to the error channel are local, the run   *)
(* continues with the next entry.                                          *)
C22_OnlySinkFailureEndsTheRun ==
    (files_given /\ pc \in {"return", "exit"} /\ i <= Len(resolved)) => cause = "write"

----------------------------------------------------------------------------
(* Diagnostics and blocks *)

\* The sink of the run over the first n resolved entries: their blocks.
BlocksOf(n) == RunOver(SelectSeq(SubSeq(resolved, 1, n), NotErroring), FALSE, <<>>).sink

(* C23: resolution and scan diagnostics are written only to the error      *)
(* channel, never to the output sink, and each is emitted between complete *)
(* source blocks: the step that emits a diagnostic leaves the sink as it   *)
(* is, the sink then holds exactly the blocks of the entries before, and   *)
(* a step that writes to the sink emits no diagnostic; the sink holds text *)
(* of the blocks only.                                                     *)
C23_DiagnosticsBetweenBlocks ==
    [][files_given =>
          /\ diag' # diag =>
                /\ sink' = sink
                /\ sink = BlocksOf(i - 1)
                /\ Len(diag') = Len(diag) + 1
          /\ sink' # sink => diag' = diag
          /\ IsPrefix(sink', BlocksOf(Len(resolved)))]_vars

\* A diagnostic was emitted between the blocks of two producing sources.
C23_Witness ==
    /\ files_given /\ pc = "grep_files" /\ i = 4 /\ SinkIntact
    /\ Producing(resolved[1]) /\ Erroring(resolved[2]) /\ Producing(resolved[3])
    /\ Len(diag) = 1
    /\ sink = BlocksOf(3)
    /\ ~count

----------------------------------------------------------------------------
(* The interactive session, line by line *)

\* What the loop writes for the first n lines of the input, each rendered
\* as the reporter renders one line.
RECURSIVE Echoed(_)
Echoed(n) ==
    IF n = 0 THEN <<>>
    ELSE Echoed(n - 1) \o Flatten(output_line_text(reporter, trim_end(stdin[n] \o <<NL>>)))

(* C24: in InteractiveStdin there is no end-of-stream aggregation: the     *)
(* output of the k-th input line is appended to the sink before the        *)
(* (k+1)-th line is read, for every k: whenever the loop is about to read  *)
(* line i, the sink holds the output of the lines 1..i-1, no more and no   *)
(* less, and every turn of the loop that goes on appends one line.         *)
C24_NoAggregation ==
    [][(InteractiveStdin /\ pc = "grep_interactive_stdin") =>
          /\ sink = Echoed(i - 1)
          /\ i' = i + 1 => (sink' = Echoed(i) /\ sink' # sink)
          /\ pc' = "flush" => (sink' = sink /\ i > Len(stdin))]_vars

\* Two lines were read and written, a third has not been read yet.
C24_Witness ==
    /\ InteractiveStdin /\ pc = "grep_interactive_stdin"
    /\ i = 3 /\ Len(stdin) = 3
    /\ sink = Echoed(2) /\ Len(LinesOf(sink)) = 2
    /\ ~pattern_is_match(pattern, stdin[1])

\* The first n lines of the input as they were entered, each followed by
\* one line terminator.
RECURSIVE Entered(_)
Entered(n) == IF n = 0 THEN <<>> ELSE Entered(n - 1) \o stdin[n] \o <<NL>>

(* C25: in InteractiveStdin with color off, the text written for an input  *)
(* line is exactly that line's text (line terminator removed) followed by  *)
(* one line terminator; in particular leading whitespace of the line is    *)
(* echoed unchanged.                                                       *)
C25_InteractiveEchoIsExact ==
    (InteractiveStdin /\ ~color /\ pc = "grep_interactive_stdin") => sink = Entered(i - 1)

----------------------------------------------------------------------------
(* A sub-directory that cannot be read *)

\* The sub-directories beneath the directory on which read_dir fails.
UnreadableBeneath(dir_path) ==
    {d \in Beneath(dir_path) : Node(d).kind = "dir" /\ ~Node(d).readable}

\* The regular files beneath the directory that lie in none of its
\* unreadable sub-directories.
FilesOutsideUnreadable(dir_path) ==
    {f \in FilesBeneath(dir_path) :
        \A d \in UnreadableBeneath(dir_path) : ~IsPrefix(d \o <<"/">>, f)}

(* C26: with recursive=true, a failure to read one nested sub-directory    *)
(* beneath a directory input does not suppress the other entries of that   *)
(* expansion: every regular file beneath the input directory that lies     *)
(* outside the unreadable sub-directory is still yielded as a success      *)
(* entry.                                                                  *)
C26_UnreadableSubdirIsLocal ==
    [][(Resolving /\ recursive /\ is_dir(files[i]) /\ Node(files[i]).readable
        /\ UnreadableBeneath(files[i]) # {}) =>
          \A f \in FilesOutsideUnreadable(files[i]) :
              \E n \in 1..Len(Appended) : Appended[n] = OkEntry(f)]_vars

----------------------------------------------------------------------------
(* A source whose read fails part-way *)

\* The file opens and the read of one of its lines fails.
ReadFails(path) ==
    /\ FileSystem(path).open_ok
    /\ \E k \in 1..Len(FileSystem(path).items) : FileSystem(path).items[k] = IoErr

\* The line (1-based) whose read fails first.
FirstFailure(path) ==
    CHOOSE k \in 1..Len(FileSystem(path).items) :
        /\ FileSystem(path).items[k] = IoErr
        /\ \A j \in 1..(k - 1) : FileSystem(path).items[j] # IoErr

\* A line before the failing one is wanted.
MatchBeforeFailure(path) ==
    \E j \in 1..(FirstFailure(path) - 1) : Wanted(FileSystem(path).items[j])

(* C27: a scan is all-or-nothing per source: when the read of a file fails *)
(* at line k, the matches of the lines 1..k-1 are discarded; the step of   *)
(* the files loop over that file writes nothing to the sink (no label, no  *)
(* partial block, no separator) and does not set the match-found flag, and *)
(* the scan result carries no match.                                       *)
C27_ScanIsAllOrNothing ==
    [][(files_given /\ pc = "grep_files" /\ i <= Len(resolved)
        /\ resolved[i].ok /\ ReadFails(resolved[i].path)) =>
          /\ sink' = sink
          /\ has_matches' = has_matches
          /\ ~result'.ok /\ result'.matches = <<>>]_vars

\* The only source had a wanted line before the line whose read failed:
\* the loop has gone past it, nothing is in the sink, the flag is down.
C27_Witness ==
    /\ files_given /\ pc = "grep_files" /\ i = 2 /\ Len(resolved) = 1
    /\ resolved[1].ok /\ ReadFails(resolved[1].path)
    /\ MatchBeforeFailure(resolved[1].path)
    /\ sink = <<>> /\ ~has_matches
    /\ Len(diag) = 1

----------------------------------------------------------------------------
(* A run in which every source fails *)

\* Every resolved entry is an error: of resolution, of open or of read.
EverySourceFails ==
    /\ files_given
    /\ resolved # <<>>
    /\ \A k \in 1..Len(resolved) : Erroring(resolved[k])

(* C28: a batch-files run in which every resolved entry is an error ends   *)
(* as a run in which every file had no match: the sink is empty, the       *)
(* match-found flag is false and grep returns NoMatches; the final result  *)
(* does not record that any source failed.                                 *)
C28_AllErrorsEndAsNoMatches ==
    (EverySourceFails /\ pc \in {"return", "exit"}) =>
        /\ sink = <<>>
        /\ ~has_matches
        /\ outcome = "NoMatches"

----------------------------------------------------------------------------
(* A "-" without a digit *)

\* A "-" of the text is followed by no digit.
HasBareMinus(s) ==
    \E k \in 1..Len(s) :
        /\ s[k] = "-"
        /\ (k = Len(s) \/ s[k + 1] \notin DigitChars)

(* C29: in a range string a "-" counts as part of a number only when at    *)
(* least one digit follows it; a "-" with no digit after it is accepted    *)
(* only when the whole input is "-" (All): with such a "-" in any other    *)
(* input, as in "-..5", "1..-", "~-" and "3+-", the parse fails.           *)
C29_BareMinusIsRejected ==
    (ParseOver /\ input # <<"-">> /\ HasBareMinus(input)) => (pc = "parsed" => ~lines.ok)

====
